---- MODULE Spec2Model ----
(***************************************************************************)
(* barestreams: the stream aggregator (addon.ts, createAddonInterface),    *)
(* its result cache (cache/redis.ts) and the scrapers it fans out to.      *)
(*                                                                         *)
(* A JS object is a function from the names of the fields it carries to    *)
(* their values: an absent field is absent from the DOMAIN.  An optional   *)
(* value (string | null, number | null) is None or Some(v).                *)
(***************************************************************************)
EXTENDS Integers, Sequences, FiniteSets, TLC

(* ---------------------------------------------------------------- bounds *)
\* requests handled in one behaviour
MaxRequests == 2
\* requests handled in one behaviour that is followed to its end
MaxFairRequests == 1
\* streams the upstream sites hand out in such a behaviour
MaxFairStreams == 1
\* data lines of a TSV file
MaxLines == 3
\* bytes one read of the title index takes (64 KiB in imdb/index.ts, scaled
\* down so that a line spans several reads)
BUFFER_SIZE == 2
\* calls of ensureImdbDatasets in one behaviour
MaxEnsures == 2
\* calls of getTitleBasics in one behaviour
MaxLookups == 3
\* streams the upstream sites hand out in one behaviour, over all scrapers
MaxStreams == 2
\* streams the settled scrapers hold, in all, when the merge is checked alone
MaxMerged == 2
\* ":"-separated segments of an id handed to the id parser
MaxSegments == 3
\* config.flareSolverrSessions when sessions are asked for
MaxSessions == 1
\* fetchText / fetchJson calls made in one behaviour
MaxCalls == 1
\* ticks of the session refresh timer in one behaviour
MaxTicks == 2
\* calls of initFlareSolverrSessions in one behaviour
MaxInits == 2
\* links on a search page or in an API answer
MaxLinks == 2
\* result pages a TorrentGalaxy mirror serves for a query
MaxPages == 1
\* base URLs configured for a scraper
MaxUrls == 1

(* -------------------------------------------------------------- optionals *)
None == <<>>
Some(v) == <<v>>
IsSome(o) == o # <<>>
Val(o) == o[1]

Has(obj, field) == field \in DOMAIN obj
\* obj.field as an optional value
Get(obj, field) == IF field \in DOMAIN obj THEN Some(obj[field]) ELSE None
\* { ...obj, field: value }
Put(obj, field, value) ==
    [f \in (DOMAIN obj) \cup {field} |-> IF f = field THEN value ELSE obj[f]]
\* const { field, ...rest } = obj
Without(obj, field) == [f \in (DOMAIN obj) \ {field} |-> obj[f]]

Range(seq) == {seq[i] : i \in 1..Len(seq)}

(* ------------------------------------------------- description text model *)
(* A description is a sequence of lines, a line a sequence of tokens.      *)
(* LinkMark stands for the link emoji that precedes the source label and   *)
(* Bullet for the separator of the info line.                              *)
LinkMark == "LINK"
Bullet == "BULLET"

QualityTokens == {"2160p", "1080p", "720p", "480p", "4k", "uhd"}

\* String.prototype.toLowerCase on the tokens the model uses
ToLower(tok) ==
    CASE tok = "YTS" -> "yts"
      [] tok = "TGX" -> "tgx"
      [] tok = "TPB" -> "tpb"
      [] tok = "EZTV" -> "eztv"
      [] tok = "4K" -> "4k"
      [] tok = "UHD" -> "uhd"
      [] tok = "1080P" -> "1080p"
      [] tok = "WEB" -> "web"
      [] tok = "Movie" -> "movie"
      [] tok = "Show" -> "show"
      [] OTHER -> tok

\* QUALITY_REGEX, case-insensitive, first match in the text
RECURSIVE extractQualityHint(_)
extractQualityHint(tokens) ==
    IF tokens = <<>> THEN None
    ELSE LET quality == ToLower(Head(tokens)) IN
         IF quality \in QualityTokens
         THEN IF quality \in {"4k", "uhd"} THEN Some("2160p") ELSE Some(quality)
         ELSE extractQualityHint(Tail(tokens))

\* all tokens of a text, lines joined
RECURSIVE Flatten(_)
Flatten(lines) ==
    IF lines = <<>> THEN <<>> ELSE Head(lines) \o Flatten(Tail(lines))

\* /LINK\s*([^BULLET]+)\s*$/ on one line: the tokens after the first link
\* mark that has no bullet (and at least one token) between it and the end
RECURSIVE LinkLabel(_)
LinkLabel(line) ==
    IF line = <<>> THEN None
    ELSE IF Head(line) = LinkMark
            /\ Tail(line) # <<>>
            /\ Bullet \notin Range(Tail(line))
         THEN Some(Tail(line))
         ELSE LinkLabel(Tail(line))

\* the description's lines, last first; the first line with a source wins
RECURSIVE SourceOfLines(_)
SourceOfLines(lines) ==
    IF lines = <<>> THEN None
    ELSE LET line == lines[Len(lines)]
             sourceMatch == LinkLabel(line)
         IN IF IsSome(sourceMatch) THEN sourceMatch
            ELSE SourceOfLines(SubSeq(lines, 1, Len(lines) - 1))

extractSourceFromDescription(description) ==
    IF ~IsSome(description) \/ Val(description) = <<>> THEN None
    ELSE SourceOfLines(Val(description))

\* lower-case, runs of other characters become "-": one segment per token
normalizeBingeSegment(value) == [i \in 1..Len(value) |-> ToLower(value[i])]

extractStreamQuality(stream) ==
    LET text == (IF Has(stream, "description")
                 THEN Flatten(stream.description) ELSE <<>>)
                \o (IF Has(stream, "name") THEN <<stream.name>> ELSE <<>>)
    IN extractQualityHint(text)

(* ------------------------------------------------------------ id parser *)
(* An id is the sequence of its ":"-separated segments (id.split(":") never *)
(* yields an empty array), a segment one of the strings below.             *)
SegmentTokens ==
    {"tt1", "tt", "t1", "1", "2", "01", "1.0", "1.5", "0", "-1", "", " 1", "x"}

\* the characters of a segment
Chars(tok) ==
    CASE tok = "tt1" -> <<"t", "t", "1">>
      [] tok = "tt" -> <<"t", "t">>
      [] tok = "t1" -> <<"t", "1">>
      [] tok = "1" -> <<"1">>
      [] tok = "2" -> <<"2">>
      [] tok = "01" -> <<"0", "1">>
      [] tok = "1.0" -> <<"1", ".", "0">>
      [] tok = "1.5" -> <<"1", ".", "5">>
      [] tok = "0" -> <<"0">>
      [] tok = "-1" -> <<"-", "1">>
      [] tok = "" -> <<>>
      [] tok = " 1" -> <<" ", "1">>
      [] tok = "x" -> <<"x">>

Digits == {"0", "1", "2", "3", "5"}
DigitVal(c) ==
    CASE c = "0" -> 0 [] c = "1" -> 1 [] c = "2" -> 2 [] c = "3" -> 3
      [] c = "5" -> 5

\* baseIdRegex = /^tt\d+$/
baseIdRegexTest(tok) ==
    LET c == Chars(tok)
    IN /\ Len(c) >= 3
       /\ c[1] = "t"
       /\ c[2] = "t"
       /\ \A i \in 3..Len(c) : c[i] \in Digits

\* String.prototype.trim on a character sequence
RECURSIVE TrimStart(_)
TrimStart(c) ==
    IF c # <<>> /\ Head(c) = " " THEN TrimStart(Tail(c)) ELSE c
RECURSIVE TrimEnd(_)
TrimEnd(c) ==
    IF c # <<>> /\ c[Len(c)] = " "
    THEN TrimEnd(SubSeq(c, 1, Len(c) - 1)) ELSE c

\* the value of a run of decimal digits
RECURSIVE DecimalValue(_)
DecimalValue(c) ==
    IF c = <<>> THEN 0
    ELSE 10 * DecimalValue(SubSeq(c, 1, Len(c) - 1)) + DigitVal(c[Len(c)])

NaN == [nan |-> TRUE]
\* a JS number: its sign, the integral part of its magnitude and whether a
\* fractional part is left
Num(negative, whole, fraction) ==
    [nan |-> FALSE, negative |-> negative, whole |-> whole,
     fraction |-> fraction]

\* an unsigned decimal literal: digits, digits "." digits, "." digits
UnsignedNumber(c) ==
    LET dots == {i \in 1..Len(c) : c[i] = "."}
    IN IF c = <<>> \/ Cardinality(dots) > 1
          \/ \E i \in 1..Len(c) : c[i] \notin Digits \cup {"."}
       THEN NaN
       ELSE IF dots = {}
       THEN Num(FALSE, DecimalValue(c), FALSE)
       ELSE LET dot == CHOOSE i \in dots : TRUE
                whole == SubSeq(c, 1, dot - 1)
                frac == SubSeq(c, dot + 1, Len(c))
            IN IF whole = <<>> /\ frac = <<>> THEN NaN
               ELSE Num(FALSE, DecimalValue(whole), DecimalValue(frac) # 0)

\* Number(string): white space trimmed, the empty string is 0, an optional
\* sign, a decimal literal; anything else is NaN
Number(tok) ==
    LET c == TrimEnd(TrimStart(Chars(tok)))
    IN IF c = <<>> THEN Num(FALSE, 0, FALSE)
       ELSE IF Head(c) \in {"-", "+"}
       THEN LET n == UnsignedNumber(Tail(c))
            IN IF n.nan THEN NaN
               ELSE IF Head(c) = "-" THEN Num(TRUE, n.whole, n.fraction)
               ELSE n
       ELSE UnsignedNumber(c)

NumberIsInteger(n) == ~n.nan /\ ~n.fraction
\* n <= 0 on a JS number (false on NaN)
NotPositive(n) ==
    /\ ~n.nan
    /\ \/ n.negative
       \/ n.whole = 0 /\ ~n.fraction

BadRequestError(message) == [name |-> "BadRequestError", message |-> message]
Threw(err) == [ok |-> FALSE, error |-> err]
Returned(value) == [ok |-> TRUE, value |-> value]

\* mutant: the base id of a one-segment id is not tested
parseStremioId_AnyBase(id) ==
    IF Len(id) = 1
    THEN Returned([baseId |-> id[1]])
    ELSE IF Len(id) # 3
    THEN Threw(BadRequestError("Invalid id segment count"))
    ELSE IF ~baseIdRegexTest(id[1])
    THEN Threw(BadRequestError("Invalid base id"))
    ELSE LET season == Number(id[2])
             episode == Number(id[3])
         IN IF ~NumberIsInteger(season) \/ NotPositive(season)
            THEN Threw(BadRequestError("Invalid season"))
            ELSE IF ~NumberIsInteger(episode) \/ NotPositive(episode)
            THEN Threw(BadRequestError("Invalid episode"))
            ELSE Returned([baseId |-> id[1], season |-> season.whole,
                           episode |-> episode.whole])

parseStremioId(id) ==
    IF Len(id) = 1
    THEN IF ~baseIdRegexTest(id[1])
         THEN Threw(BadRequestError("Invalid base id"))
         ELSE Returned([baseId |-> id[1]])
    ELSE IF Len(id) # 3
    THEN Threw(BadRequestError("Invalid id segment count"))
    ELSE IF ~baseIdRegexTest(id[1])
    THEN Threw(BadRequestError("Invalid base id"))
    ELSE LET season == Number(id[2])
             episode == Number(id[3])
         IN IF ~NumberIsInteger(season) \/ NotPositive(season)
            THEN Threw(BadRequestError("Invalid season"))
            ELSE IF ~NumberIsInteger(episode) \/ NotPositive(episode)
            THEN Threw(BadRequestError("Invalid episode"))
            ELSE Returned([baseId |-> id[1], season |-> season.whole,
                           episode |-> episode.whole])

\* the ids handed to the parser: one to MaxSegments segments
Ids == UNION {[1..k -> SegmentTokens] : k \in 1..MaxSegments}

(* ----------------------------------------------------------- request ids *)
\* ParsedStremioId values: a bare title and an episode of it
ParsedIds == { [baseId |-> "tt1"],
               [baseId |-> "tt1", season |-> 1, episode |-> 2] }
Types == {"movie", "series"}

\* a number rendered by a template literal
NumStr(n) == CASE n = 1 -> "1" [] n = 2 -> "2" [] n = 3 -> "3" [] OTHER -> "n"

\* `stream:movie:<baseId>` etc., as the sequence of the ":"-separated parts
buildCacheKey(type, parsed) ==
    IF type = "movie" THEN <<"stream", "movie", parsed.baseId>>
    ELSE IF Has(parsed, "season") /\ Has(parsed, "episode")
         THEN <<"stream", "series", parsed.baseId,
                NumStr(parsed.season), NumStr(parsed.episode)>>
         ELSE <<"stream", "series", parsed.baseId>>

CacheKeys == {buildCacheKey(t, p) : t \in Types, p \in ParsedIds}

(* --------------------------------------------------------------- streams *)
DescYts == << <<"Movie">>, <<"1080P", "WEB">>,
              <<"seeds", Bullet, "size", Bullet, LinkMark, "YTS">> >>
DescTgx == << <<"Movie">>, <<"720p">>, <<"seeds", Bullet, LinkMark, "TGX">> >>
DescTpb == << <<"Show">>, <<"WEB">>, <<"seeds", Bullet, LinkMark, "TPB">> >>

\* The streams an upstream can yield.  Two share the info hash h1 and two
\* the info hash h2; seed counts tie at 2 and at 0; one reports no seed
\* count, one has neither an info hash nor a url, two are dead magnets.
StreamYts ==
    [name |-> "YTS", description |-> DescYts, infoHash |-> <<"h1">>,
     sources |-> <<"tracker:a">>, behaviorHints |-> [videoSize |-> 1],
     seeders |-> 2]
StreamTgxDead ==
    [name |-> "TGX", description |-> DescTgx, infoHash |-> <<"h1">>,
     sources |-> <<"tracker:b", "tracker:a">>, seeders |-> 0]
StreamTpb ==
    [name |-> "TPB", description |-> DescTpb, infoHash |-> <<"h2">>, seeders |-> 2]
StreamTpbLow ==
    [name |-> "TPB", description |-> DescTpb, infoHash |-> <<"h2">>,
     sources |-> <<"tracker:c", "tracker:c">>,
     behaviorHints |-> [filename |-> "f.mkv"], seeders |-> 1]
StreamMagnetDead ==
    [name |-> "1337x", url |-> <<"magnet:?", "h3">>, seeders |-> 0]
StreamHttpNoSeeds ==
    [name |-> "EZTV", url |-> <<"http://", "u1">>, sources |-> <<>>]
StreamHttpZero ==
    [name |-> "Web", description |-> <<>>, url |-> <<"http://", "u2">>,
     seeders |-> 0]
StreamNoKey ==
    [name |-> "NoKey", description |-> DescTgx, seeders |-> 1]

UpstreamStreams ==
    { StreamYts, StreamTgxDead, StreamTpb, StreamTpbLow, StreamMagnetDead,
      StreamHttpNoSeeds, StreamHttpZero, StreamNoKey }

\* stream.infoHash ?? stream.url ?? ""  (None stands for the empty key); a
\* string is the sequence of its parts, so that hashes and urls compare
IdentityKey(stream) ==
    IF Has(stream, "infoHash") THEN Some(stream.infoHash)
    ELSE IF Has(stream, "url") THEN Some(stream.url)
    ELSE None

\* url.startsWith("magnet:?"): a url is <<scheme prefix, rest>>
StartsWithMagnet(url) == url[1] = "magnet:?"

(* ------------------------------------------------------------ aggregator *)
\* mutant: the comparator with its operands swapped (ascending order)
sortBySeedersAsc(a, b) ==
    LET aSeeds == IF Has(a, "seeders") THEN a.seeders ELSE 0
        bSeeds == IF Has(b, "seeders") THEN b.seeders ELSE 0
    IN aSeeds - bSeeds

sortBySeedersDesc(a, b) ==
    LET aSeeds == IF Has(a, "seeders") THEN a.seeders ELSE 0
        bSeeds == IF Has(b, "seeders") THEN b.seeders ELSE 0
    IN bSeeds - aSeeds

\* Array.prototype.sort(sortBySeedersDesc): a stable sort (ECMAScript 2019);
\* an element goes after every element that does not compare greater than it
RECURSIVE InsertSorted(_, _)
InsertSorted(sorted, x) ==
    IF sorted = <<>> THEN <<x>>
    ELSE IF sortBySeedersDesc(Head(sorted), x) <= 0
         THEN <<Head(sorted)>> \o InsertSorted(Tail(sorted), x)
         ELSE <<x>> \o sorted

RECURSIVE ArraySort(_)
ArraySort(arr) ==
    IF arr = <<>> THEN <<>>
    ELSE InsertSorted(ArraySort(SubSeq(arr, 1, Len(arr) - 1)), arr[Len(arr)])

\* mutant: nothing is stripped
stripStreamExtras_Keep(stream) == stream

stripStreamExtras(stream) == Without(stream, "seeders")

\* mutant: the magnet-url case is forgotten
isZeroSeederMagnet_HashOnly(stream) ==
    IF ~Has(stream, "seeders") \/ stream.seeders > 0 THEN FALSE
    ELSE Has(stream, "infoHash")

isZeroSeederMagnet(stream) ==
    IF ~Has(stream, "seeders") \/ stream.seeders > 0 THEN FALSE
    ELSE IF Has(stream, "infoHash") THEN TRUE
    ELSE Has(stream, "url") /\ StartsWithMagnet(stream.url)

\* mutant: the season and episode of the request are not looked at
applyBingeGroup_AnySeries(stream, parsed, type) ==
    IF type # "series"
    THEN stream
    ELSE IF Has(stream, "behaviorHints")
            /\ Has(stream.behaviorHints, "bingeGroup")
    THEN stream
    ELSE LET q == extractStreamQuality(stream)
             quality == IF IsSome(q) THEN Val(q) ELSE "unknown"
             src == extractSourceFromDescription(Get(stream, "description"))
             source == normalizeBingeSegment(
                          IF IsSome(src) THEN Val(src) ELSE <<"stream">>)
             bingeGroup == <<"barestreams">> \o source \o <<quality>>
             hints == IF Has(stream, "behaviorHints")
                      THEN stream.behaviorHints ELSE << >>
         IN Put(stream, "behaviorHints", Put(hints, "bingeGroup", bingeGroup))

applyBingeGroup(stream, parsed, type) ==
    IF type # "series" \/ ~Has(parsed, "season") \/ ~Has(parsed, "episode")
    THEN stream
    ELSE IF Has(stream, "behaviorHints")
            /\ Has(stream.behaviorHints, "bingeGroup")
    THEN stream
    ELSE LET q == extractStreamQuality(stream)
             quality == IF IsSome(q) THEN Val(q) ELSE "unknown"
             src == extractSourceFromDescription(Get(stream, "description"))
             source == normalizeBingeSegment(
                          IF IsSome(src) THEN Val(src) ELSE <<"stream">>)
             bingeGroup == <<"barestreams">> \o source \o <<quality>>
             hints == IF Has(stream, "behaviorHints")
                      THEN stream.behaviorHints ELSE << >>
         IN Put(stream, "behaviorHints", Put(hints, "bingeGroup", bingeGroup))

\* new Set([...a, ...b]) turned back into an array: first occurrences, in order
RECURSIVE SetOfArray(_)
SetOfArray(arr) ==
    IF arr = <<>> THEN <<>>
    ELSE LET init == SetOfArray(SubSeq(arr, 1, Len(arr) - 1))
             last == arr[Len(arr)]
         IN IF last \in Range(init) THEN init ELSE Append(init, last)

\* mutant: the duplicate's sources replace those of the first occurrence
MergeSources_Replace(existing, stream) ==
    IF Has(stream, "sources") THEN Put(existing, "sources", stream.sources)
    ELSE existing

\* the merge of a duplicate's sources into the first occurrence
MergeSources(existing, stream) ==
    IF Has(existing, "sources") \/ Has(stream, "sources")
    THEN LET merged == SetOfArray(
                 (IF Has(existing, "sources") THEN existing.sources ELSE <<>>)
              \o (IF Has(stream, "sources") THEN stream.sources ELSE <<>>))
         IN IF Len(merged) > 0 THEN Put(existing, "sources", merged)
            ELSE existing
    ELSE existing

\* mutant: `seen` is never filled, every stream with a key passes
DedupeStreams_NeverSeen(kept, rest) ==
    LET HasKey(stream) == IsSome(IdentityKey(stream))
    IN kept \o SelectSeq(rest, HasKey)

\* the filter callback of the dedupe, run over the streams of the fulfilled
\* scrapers in call order; kept is the output so far (the values of `seen`)
RECURSIVE DedupeStreams(_, _)
DedupeStreams(kept, rest) ==
    IF rest = <<>> THEN kept
    ELSE LET stream == Head(rest)
             key == IdentityKey(stream)
         IN IF ~IsSome(key) THEN DedupeStreams(kept, Tail(rest))
            ELSE IF \E i \in 1..Len(kept) : IdentityKey(kept[i]) = key
                 THEN LET i == CHOOSE j \in 1..Len(kept) :
                                   IdentityKey(kept[j]) = key
                      IN DedupeStreams(
                           [kept EXCEPT ![i] = MergeSources(kept[i], stream)],
                           Tail(rest))
                 ELSE DedupeStreams(Append(kept, stream), Tail(rest))

\* JSON.stringify of a StreamResponse: the streams in order, each the list
\* of its own fields with their values
FieldOrder == <<"name", "description", "url", "infoHash", "sources",
                "behaviorHints", "seeders">>
JSONstringify(response) ==
    [i \in 1..Len(response.streams) |->
        LET stream == response.streams[i]
            IsOwn(f) == f \in DOMAIN stream
            fields == SelectSeq(FieldOrder, IsOwn)
        IN [j \in 1..Len(fields) |-> <<fields[j], stream[fields[j]]>>]]

\* JSON.parse of such a text
JSONparse(text) ==
    [streams |->
        [i \in 1..Len(text) |->
            LET pairs == text[i]
                names == {pairs[j][1] : j \in 1..Len(pairs)}
            IN [f \in names |->
                   (pairs[CHOOSE j \in 1..Len(pairs) : pairs[j][1] = f])[2]]]]

(* -------------------------------------------------------------- scrapers *)
ScraperKeys == {"yts", "eztv", "tgx", "tpb", "x1337x"}

\* mutant: the series scrapers are called whatever the type
ScraperCalls_SeriesForAll(type) ==
    <<"eztv", "tgx", "tpb", "x1337x">>

\* the array literal handed to Promise.allSettled, in call order
ScraperCalls(type) ==
    IF type = "movie" THEN <<"yts", "tgx", "tpb", "x1337x">>
    ELSE <<"eztv", "tgx", "tpb", "x1337x">>

\* What a scraper returns once its fetches have ended, from the streams its
\* answered fetches yielded (got) and the state of the signal.  Cancelled
\* while it searches a scraper has no streams and returns none.  After the
\* last shouldAbort check (before the detail fetches) TorrentGalaxy and 1337x
\* build their streams from whichever detail pages were fetched; ApiBay from
\* whichever of its concurrent queries answered.
scrapeTorrentGalaxyStreams(got, aborted) == got
scrapeX1337xStreams(got, aborted) == got
scrapePirateBayStreams(got, aborted) == got
\* the context-aware YTS and EZTV scrapers: empty once cancelled
scrapeYtsStreams(got, aborted) == IF aborted THEN <<>> ELSE got
scrapeEztvStreams(got, aborted) == IF aborted THEN <<>> ELSE got

ScraperResult(s, got, aborted) ==
    CASE s = "tgx" -> scrapeTorrentGalaxyStreams(got, aborted)
      [] s = "x1337x" -> scrapeX1337xStreams(got, aborted)
      [] s = "tpb" -> scrapePirateBayStreams(got, aborted)
      [] s = "yts" -> scrapeYtsStreams(got, aborted)
      [] s = "eztv" -> scrapeEztvStreams(got, aborted)

(* ------------------------------------------------------- episode names *)
(* scrapers/query.ts: the names of the candidates a search page lists and   *)
(* the episode read from a name.                                            *)

CandidateNames == {"Show S01E02", "Show S01E03", "Show 1x02", "Show"}

\* the characters of a name
NameChars(name) ==
    CASE name = "Show S01E02" ->
            <<"S", "h", "o", "w", " ", "S", "0", "1", "E", "0", "2">>
      [] name = "Show S01E03" ->
            <<"S", "h", "o", "w", " ", "S", "0", "1", "E", "0", "3">>
      [] name = "Show 1x02" ->
            <<"S", "h", "o", "w", " ", "1", "x", "0", "2">>
      [] name = "Show" -> <<"S", "h", "o", "w">>

\* the letter a character stands for under the i flag
LowerCase(ch) ==
    CASE ch = "S" -> "s" [] ch = "E" -> "e" [] ch = "X" -> "x"
      [] ch = "A" -> "a" [] ch = "O" -> "o" [] ch = "N" -> "n"
      [] ch = "P" -> "p" [] ch = "I" -> "i" [] ch = "D" -> "d"
      [] OTHER -> ch

\* text.replace(/\s+/g, " ").trim()
RECURSIVE CollapseSpaces(_)
CollapseSpaces(c) ==
    IF Len(c) < 2 THEN c
    ELSE IF c[1] = " " /\ c[2] = " " THEN CollapseSpaces(Tail(c))
    ELSE <<c[1]>> \o CollapseSpaces(Tail(c))

NormalizeText(c) == TrimEnd(TrimStart(CollapseSpaces(c)))

LetterAt(c, i, letter) == i \in 1..Len(c) /\ LowerCase(c[i]) = letter
DigitAt(c, i) == i \in 1..Len(c) /\ c[i] \in Digits
WordAt(c, i, word) == \A k \in 1..Len(word) : LetterAt(c, i + k - 1, word[k])

\* \s* from position i: the position after the spaces
RECURSIVE AfterSpaces(_, _)
AfterSpaces(c, i) ==
    IF i \in 1..Len(c) /\ c[i] = " " THEN AfterSpaces(c, i + 1) ELSE i

\* (\d{1,2}) at the end of a pattern: two digits when there are two
LastDigits(c, i) ==
    IF DigitAt(c, i) /\ DigitAt(c, i + 1) THEN Some(SubSeq(c, i, i + 1))
    ELSE IF DigitAt(c, i) THEN Some(SubSeq(c, i, i))
    ELSE None

\* 0?(\d{1,2}) from position d, at the end of a pattern
EpisodeDigits(c, d) ==
    LastDigits(c, IF d \in 1..Len(c) /\ c[d] = "0" /\ DigitAt(c, d + 1)
                  THEN d + 1 ELSE d)

\* E(?:pisode)?\s*0?(\d{1,2}) from position e
EpisodeFrom(c, e) ==
    IF ~LetterAt(c, e, "e") THEN None
    ELSE EpisodeDigits(c, AfterSpaces(c,
            IF WordAt(c, e + 1, <<"p", "i", "s", "o", "d", "e">>)
            THEN e + 7 ELSE e + 1))

\* \s*E(?:pisode)?\s*0?(\d{1,2}) from position i: the episode digits
EpisodePart(c, i) == EpisodeFrom(c, AfterSpaces(c, i))

\* the ways 0?(\d{1,2}) can take the season, in the order the matcher
\* tries them: <<zeros skipped, digits taken>>
SeasonTakes == << <<1, 2>>, <<1, 1>>, <<0, 2>>, <<0, 1>> >>

\* the season is taken in this way from position d, with what follows it
SeasonTaken(c, d, take) ==
    IF /\ take[1] = 1 => (d \in 1..Len(c) /\ c[d] = "0")
       /\ \A k \in 0..(take[2] - 1) : DigitAt(c, d + take[1] + k)
    THEN [season |-> SubSeq(c, d + take[1], d + take[1] + take[2] - 1),
          episode |-> EpisodePart(c, d + take[1] + take[2])]
    ELSE [season |-> <<>>, episode |-> None]

\* the first of the tried ways that leads to a match
FirstFitting(tried) ==
    LET fitting == {n \in 1..Len(tried) : IsSome(tried[n].episode)}
    IN IF fitting = {} THEN None
       ELSE LET first == tried[CHOOSE n \in fitting :
                                  \A m \in fitting : n <= m]
            IN Some([season |-> first.season,
                     episode |-> Val(first.episode)])

\* 0?(\d{1,2})\s*E(?:pisode)?\s*0?(\d{1,2}) from position d
SeasonFrom(c, d) ==
    FirstFitting([n \in 1..Len(SeasonTakes) |->
                     SeasonTaken(c, d, SeasonTakes[n])])

\* /S(?:eason)?\s*0?(\d{1,2})\s*E(?:pisode)?\s*0?(\d{1,2})/i at position p
LongPatternAt(c, p) ==
    IF ~LetterAt(c, p, "s") THEN None
    ELSE SeasonFrom(c, AfterSpaces(c,
            IF WordAt(c, p + 1, <<"e", "a", "s", "o", "n">>)
            THEN p + 6 ELSE p + 1))

\* a letter and (\d{1,2}) from position i
EpisodeTail(c, i, letter) ==
    IF LetterAt(c, i, letter) THEN LastDigits(c, i + 1) ELSE None

\* n digits from position p, the letter after \s* when spaces are allowed,
\* and (\d{1,2})
DigitsThenLetter(c, p, n, letter, spaces) ==
    IF \A k \in 0..(n - 1) : DigitAt(c, p + k)
    THEN [season |-> SubSeq(c, p, p + n - 1),
          episode |-> IF spaces THEN EpisodeTail(c, AfterSpaces(c, p + n),
                                                 letter)
                      ELSE EpisodeTail(c, p + n, letter)]
    ELSE [season |-> <<>>, episode |-> None]

\* (\d{1,2}), a letter and (\d{1,2}), at position p
DigitsLetterDigitsAt(c, p, letter, spaces) ==
    FirstFitting([n \in 1..2 |->
                     DigitsThenLetter(c, p, 3 - n, letter, spaces)])

\* /S(\d{1,2})\s*E(\d{1,2})/i at position p
ShortPatternAt(c, p) ==
    IF ~LetterAt(c, p, "s") THEN None
    ELSE DigitsLetterDigitsAt(c, p + 1, "e", TRUE)

\* /(\d{1,2})x(\d{1,2})/i at position p
CrossPatternAt(c, p) == DigitsLetterDigitsAt(c, p, "x", FALSE)

\* the leftmost of the matches found at the positions
LeftMost(found) ==
    LET at == {p \in DOMAIN found : IsSome(found[p])}
    IN IF at = {} THEN None
       ELSE found[CHOOSE p \in at : \A q \in at : p <= q]

\* String.prototype.match: the leftmost position where the pattern matches
FirstMatch(c, PatternAt(_, _)) ==
    LeftMost([p \in 1..Len(c) |-> PatternAt(c, p)])

\* the first of the patterns that matches
FirstPattern(long, short, cross) ==
    IF IsSome(long) THEN long ELSE IF IsSome(short) THEN short ELSE cross

\* Number(match[1]), Number(match[2])
EpisodeNumbers(match) ==
    IF ~IsSome(match) THEN None
    ELSE Some([season |-> DecimalValue(Val(match).season),
               episode |-> DecimalValue(Val(match).episode)])

\* the episode of a text already normalised
EpisodeOfText(c) ==
    EpisodeNumbers(FirstPattern(FirstMatch(c, LongPatternAt),
                                FirstMatch(c, ShortPatternAt),
                                FirstMatch(c, CrossPatternAt)))

\* the episode read from each of the names, worked out once
EpisodeOfName ==
    [name \in CandidateNames |-> EpisodeOfText(NormalizeText(NameChars(name)))]

\* parseEpisodeFromText: text is None (undefined) or Some(name)
parseEpisodeFromText(text) ==
    IF ~IsSome(text) \/ NameChars(Val(text)) = <<>> THEN None
    ELSE EpisodeOfName[Val(text)]

\* a season or episode of a parsed id that is set and not 0
Truthy(parsed, field) == field \in DOMAIN parsed /\ parsed[field] # 0

\* mutant: the episode of the name is not compared
matchesEpisode_SeasonOnly(name, parsed) ==
    IF ~Truthy(parsed, "season") \/ ~Truthy(parsed, "episode") THEN TRUE
    ELSE LET found == parseEpisodeFromText(name)
         IN IF ~IsSome(found) THEN FALSE
            ELSE Val(found).season = parsed.season

\* matchesEpisode(name, parsed.season, parsed.episode)
matchesEpisode(name, parsed) ==
    IF ~Truthy(parsed, "season") \/ ~Truthy(parsed, "episode") THEN TRUE
    ELSE LET found == parseEpisodeFromText(name)
         IN IF ~IsSome(found) THEN FALSE
            ELSE /\ Val(found).season = parsed.season
                 /\ Val(found).episode = parsed.episode

(* ------------------------------------------------------------ queries *)
\* A query is the sequence of its words; a word is the sequence of the
\* pieces it is written with, so that a word can be put together from a
\* season number or from two words.  A title is a sequence of words and of
\* punctuation marks.
Word(text) == <<text>>

Punctuation == {Word("!"), Word("'")}

\* /\b(\w+)\s+s\b/g -> "$1s": a word "s" is joined to the word before it
RECURSIVE JoinS(_)
JoinS(words) ==
    IF Len(words) < 2 THEN words
    ELSE IF words[2] = Word("s")
         THEN <<words[1] \o Word("s")>> \o JoinS(SubSeq(words, 3, Len(words)))
         ELSE <<words[1]>> \o JoinS(Tail(words))

\* normalizeQuery(value): marks become spaces, spaces collapse, trim
normalizeQuery(value) ==
    JoinS(SelectSeq(value, LAMBDA item : item \notin Punctuation))

\* number.toString().padStart(2, "0")
PadStart2(n) ==
    CASE n = 1 -> "01" [] n = 2 -> "02" [] n = 3 -> "03" [] OTHER -> "00"

\* formatEpisodeSuffix(parsed.season, parsed.episode)
formatEpisodeSuffix(parsed) ==
    IF ~Truthy(parsed, "season") \/ ~Truthy(parsed, "episode") THEN None
    ELSE Some(<<"S", PadStart2(parsed.season), "E", PadStart2(parsed.episode)>>)

\* titleType.toLowerCase()
TitleTypeLower(titleType) ==
    CASE titleType = "tvSeries" -> "tvseries"
      [] titleType = "tvMiniSeries" -> "tvminiseries"
      [] titleType = "tvEpisode" -> "tvepisode"
      [] OTHER -> titleType

isSeriesTitleType(titleType) ==
    /\ IsSome(titleType)
    /\ TitleTypeLower(Val(titleType))
           \in {"tvseries", "tvminiseries", "tvepisode"}

\* ` ${basics.startYear}`
YearText(year) == CASE year = 2020 -> "2020" [] OTHER -> "0"

\* buildQueries(parsed), with basics the answer of getTitleBasics: None, or
\* Some([primaryTitle, originalTitle, titleType, startYear]) where an empty
\* title is a missing one
buildQueries(parsed, basics) ==
    LET baseTitle ==
            IF IsSome(basics) /\ Val(basics).primaryTitle # <<>>
            THEN Val(basics).primaryTitle
            ELSE IF IsSome(basics) /\ Val(basics).originalTitle # <<>>
            THEN Val(basics).originalTitle
            ELSE <<Word(parsed.baseId)>>
        episodeSuffix == formatEpisodeSuffix(parsed)
        isSeries ==
            \/ isSeriesTitleType(IF IsSome(basics) THEN Val(basics).titleType
                                 ELSE None)
            \/ IsSome(episodeSuffix)
        yearSuffix ==
            IF ~isSeries /\ IsSome(basics) /\ IsSome(Val(basics).startYear)
            THEN <<Word(YearText(Val(Val(basics).startYear)))>>
            ELSE <<>>
        query == normalizeQuery(baseTitle \o yearSuffix)
        fallbackQuery == normalizeQuery(baseTitle)
    IN IF isSeries /\ IsSome(episodeSuffix)
       THEN [baseTitle |-> baseTitle,
             query |-> normalizeQuery(baseTitle \o <<Val(episodeSuffix)>>),
             fallbackQuery |-> Some(normalizeQuery(baseTitle)),
             episodeSuffix |-> episodeSuffix]
       ELSE [baseTitle |-> baseTitle,
             query |-> query,
             fallbackQuery |-> IF fallbackQuery # query
                               THEN Some(fallbackQuery) ELSE None,
             episodeSuffix |-> None]

\* a query the code takes for one: not null and not the empty string
IsQuery(fallbackQuery) == IsSome(fallbackQuery) /\ Val(fallbackQuery) # <<>>

(* --------------------------------------------------------- candidates *)
\* What a search page or an API answer lists: the name of the torrent (None
\* when the entry has none), the hash its magnet carries, which also stands
\* for the URL of its detail page, and its seeders.
Listing ==
    << [name |-> Some("Show S01E02"), hash |-> "a", seeders |-> 1],
       [name |-> Some("Show S01E03"), hash |-> "b", seeders |-> 2],
       [name |-> Some("Show"),        hash |-> "c", seeders |-> 0] >>

Catalogue == Range(Listing)

\* the first n elements of a list
FirstN(seq, n) == SubSeq(seq, 1, IF n < Len(seq) THEN n ELSE Len(seq))

\* filteredLinks.filter((link) => matchesEpisode(link.name, season, episode))
EpisodeFilter(links, parsed) ==
    SelectSeq(links, LAMBDA link : matchesEpisode(link.name, parsed))

\* dedupeLinks(links), dedupeResults(results): the first of each key
RECURSIVE dedupeLinks(_)
dedupeLinks(links) ==
    IF links = <<>> THEN <<>>
    ELSE LET front == dedupeLinks(SubSeq(links, 1, Len(links) - 1))
             last == links[Len(links)]
         IN IF \E i \in 1..Len(front) : front[i].hash = last.hash
            THEN front ELSE Append(front, last)

\* links.slice().sort(sortBySeedersDesc): stable, most seeders first
RECURSIVE InsertBySeeders(_, _)
InsertBySeeders(sorted, link) ==
    IF sorted = <<>> THEN <<link>>
    ELSE IF Head(sorted).seeders >= link.seeders
         THEN <<Head(sorted)>> \o InsertBySeeders(Tail(sorted), link)
         ELSE <<link>> \o sorted

RECURSIVE SortBySeedersDesc(_)
SortBySeedersDesc(links) ==
    IF links = <<>> THEN <<>>
    ELSE InsertBySeeders(SortBySeedersDesc(SubSeq(links, 1, Len(links) - 1)),
                         links[Len(links)])

(* ----------------------------------------------------------------- state *)
VARIABLES
    maxRequestWaitSeconds, \* config.maxRequestWaitSeconds: None or Some(n)
    cache,                 \* the result cache: key -> None or Some(JSON text)
    pc,                    \* "idle", "scraping", "done" (the handler returned)
                           \* or "failed" (it threw): the handler's position
    req,                   \* the request in hand: [type, parsed]
    signal,                \* scrapeContext.signal: "null", "armed", "aborted",
                           \* or "cleared" once clearScrapeTimeout has run
    scrapers,              \* per scraper: [phase, got]
    settledAtAbort,        \* the scrapers that had settled when the signal fired
    streams,               \* the deduped streams, before the dead-magnet filter
    sortedStreams,         \* the ranked streams, seed counts still attached
    response,              \* None, or Some(the StreamResponse returned)
    cacheHit,              \* the request was answered from the cache
    written,               \* None, or Some(value) this request gave to setCache
    origin,                \* key -> the response whose text the cache holds
    nreq,                  \* requests handled so far
    supplied,              \* streams handed out by the upstreams so far
    client,                \* the redis client: "null" (no REDIS_URL) or "ready"
    args,                  \* the arguments of the handler: [type, id]
    error,                 \* None, or Some(the error the handler threw)
    status,                \* the HTTP status of the answer to the last request
                           \* (0 while there is none)
    titleRequested,        \* resolveImdbTitle was called for this request
    started                \* the scraper calls of this request, in call order

VARIABLES
    idInput,               \* the id handed to parseStremioId
    idResult               \* None, or Some(what parseStremioId did with it)

VARIABLES
    config,                \* flareSolverrUrl, flareSolverrSessions,
                           \* flareSolverrSessionRefreshMs as configured
    flareSolverrUrl,       \* None, or Some(url) once initialisation has run
    flareSolverrPools,     \* the Map: scraper key -> FlareSolverrPool
    flareSolverrSessionInitAttempted,
    flareSolverrRefreshTimer, \* the refresh interval is set
    initPc,                \* initFlareSolverrSessions: "none", "probing", "done"
    tasks,                 \* the front-page probes and the fetchText calls:
                           \* [kind, scraper, pc, result], in starting order
    passes,                \* the refresh passes in flight:
                           \* [scraper, index, step, session]
    sent,                  \* the requests sent by the last step
    received,              \* the response of the standard path the last step
                           \* took: None, or Some([task, status])
    inits,                 \* calls of initFlareSolverrSessions so far
    ticks,                 \* ticks of the refresh timer so far
    fired,                 \* the calls (by their place in tasks) whose
                           \* options.signal has fired
    live                   \* the sessions that exist on the bypass service

VARIABLES
    scrapeCall,            \* the scraper call followed on its own: [scraper,
                           \* type, parsed, urls, flareSolverrSessions]
    contextAborted,        \* context.signal.aborted
    scrape,                \* where the call is: [pc, queries, which, url, page,
                           \* links, primary, filtered, searches, replies,
                           \* topLinks, result]
    paging                 \* where a fetchAllTorrents call of the EZTV scraper
                           \* is: [pc, pageLimit, expectedTotal, torrents,
                           \* lastPage, i, batchPages, requested, short]

VARIABLES
    searchFile,            \* the bytes of the TSV a search on its own reads
    searchKey,             \* the tconst it looks for
    search,                \* where findLineByTconst is: [pc, dataStart, low,
                           \* high, result]
    turns,                 \* the turns its loop has taken
    datasetFile,           \* data/imdb/title.basics.tsv: None, or Some(bytes)
    tmpFile,               \* title.basics.tsv.tmp: None, or Some(bytes)
    refreshes,             \* the Map refreshes: tsv name -> the task awaited
    refreshTasks,          \* the download-and-extract tasks started: [pc]
    callers,               \* the calls of refreshDataset: [pc, task]
    ensures,               \* calls of ensureImdbDatasets so far
    titleBasicsCache,      \* the Map titleBasicsCache: tconst -> None or
                           \* Some(TitleBasics)
    lookups                \* the calls of getTitleBasics: [tconst, pc, handle,
                           \* opened, hit, result]

addonVars == <<maxRequestWaitSeconds, cache, pc, req, signal, scrapers,
               settledAtAbort, streams, sortedStreams, response, cacheHit,
               written, origin, nreq, supplied, client, args, error, status,
               titleRequested, started>>
idVars == <<idInput, idResult>>
httpVars == <<config, flareSolverrUrl, flareSolverrPools,
              flareSolverrSessionInitAttempted, flareSolverrRefreshTimer,
              initPc, tasks, passes, sent, received, inits, ticks, fired,
              live>>

scrapeVars == <<scrapeCall, contextAborted, scrape, paging>>
searchVars == <<searchFile, searchKey, search, turns>>
imdbVars == <<datasetFile, tmpFile, refreshes, refreshTasks, callers, ensures,
              titleBasicsCache, lookups>>

vars == <<addonVars, idVars, httpVars, scrapeVars, searchVars, imdbVars>>

NoRequest == [type |-> "none"]
NoArgs == [type |-> "none", id |-> <<>>]
IdleScrapers == [s \in ScraperKeys |-> [phase |-> "idle", got |-> <<>>]]

\* mutant: a promise that rejects never counts as settled
Settled_FulfilledOnly(s) == scrapers[s].phase = "fulfilled"

\* a promise handed to Promise.allSettled has settled
Settled(s) == scrapers[s].phase \in {"fulfilled", "rejected"}
Active == {s \in ScraperKeys : scrapers[s].phase # "idle"}
Aborted == signal = "aborted"

\* MAX_REQUEST_WAIT_SECONDS as configured: 0, or a positive deadline
WaitChoices == {Some(0), Some(1)}

\* initRedis: no client without REDIS_URL, else a connected one.  Whole
\* requests are followed with REDIS_URL set; the merge with either.
ClientChoices == {"null", "ready"}

\* the streams the upstreams serve while whole requests are followed
LiveStreams == {StreamYts, StreamTgxDead}

\* the types and ids of the requests followed: a title, an episode, an id
\* with a bad base and one with two segments; a type the addon does not serve
RequestTypes == Types \cup {"channel"}
RequestIds == { <<"tt1">>, <<"tt1", "1", "2">>, <<"1">>, <<"tt1", "1">> }

AddonInit ==
    /\ maxRequestWaitSeconds \in WaitChoices
    /\ cache = [k \in CacheKeys |-> None]
    /\ pc = "idle"
    /\ req = NoRequest
    /\ signal = "null"
    /\ scrapers = IdleScrapers
    /\ settledAtAbort = {}
    /\ streams = <<>>
    /\ sortedStreams = <<>>
    /\ response = None
    /\ cacheHit = FALSE
    /\ written = None
    /\ origin = [k \in CacheKeys |-> None]
    /\ nreq = 0
    /\ supplied = 0
    /\ client = "ready"
    /\ args = NoArgs
    /\ error = None
    /\ status = 0
    /\ titleRequested = FALSE
    /\ started = <<>>

\* no id is being parsed on its own
IdIdle ==
    /\ idInput = <<"tt1">>
    /\ idResult = None

\* the HTTP layer before initFlareSolverrSessions, no bypass configured
HttpIdle ==
    /\ config = [flareSolverrUrl |-> None, flareSolverrSessions |-> 0,
                 flareSolverrSessionRefreshMs |-> 0]
    /\ flareSolverrUrl = None
    /\ flareSolverrPools = << >>
    /\ flareSolverrSessionInitAttempted = FALSE
    /\ flareSolverrRefreshTimer = FALSE
    /\ initPc = "none"
    /\ tasks = <<>>
    /\ passes = <<>>
    /\ sent = <<>>
    /\ received = None
    /\ inits = 0
    /\ ticks = 0
    /\ fired = {}
    /\ live = {}

NoCall == [scraper |-> "none"]

\* a scraper call before it is made
IdleScrape ==
    [pc |-> "idle", queries |-> None, which |-> "primary", url |-> 0,
     page |-> 0, links |-> <<>>, primary |-> None, filtered |-> None,
     searches |-> <<>>, replies |-> <<>>, topLinks |-> <<>>, result |-> None]

\* no fetchAllTorrents call is followed
NoPaging ==
    [pc |-> "idle", pageLimit |-> 0, expectedTotal |-> None, torrents |-> 0,
     lastPage |-> 0, i |-> 0, batchPages |-> <<>>, requested |-> 0,
     short |-> FALSE]

\* no scraper call is followed on its own
ScrapeIdle ==
    /\ scrapeCall = NoCall
    /\ contextAborted = FALSE
    /\ scrape = IdleScrape
    /\ paging = NoPaging

\* no search is followed on its own
NoSearch == [pc |-> "closed", dataStart |-> 0, low |-> 0, high |-> 0,
             result |-> None]
SearchIdle ==
    /\ searchFile = <<>>
    /\ searchKey = <<>>
    /\ search = NoSearch
    /\ turns = 0

\* the IMDb module is not followed: no dataset, no call
ImdbIdle ==
    /\ datasetFile = None
    /\ tmpFile = None
    /\ refreshes = << >>
    /\ refreshTasks = <<>>
    /\ callers = <<>>
    /\ ensures = 0
    /\ titleBasicsCache = << >>
    /\ lookups = <<>>

Init == AddonInit /\ IdIdle /\ HttpIdle /\ ScrapeIdle /\ SearchIdle /\ ImdbIdle

\* the error of a redis command that fails
RedisError == [name |-> "Error", message |-> "redis"]

\* getCache: null without a client, else what client.get gives or throws
getCache(key, fails) ==
    IF client = "null" THEN Returned(None)
    ELSE IF fails THEN Threw(RedisError)
    ELSE Returned(cache[key])

\* setCache: "noop" without a client, else client.set stores or throws
setCache(fails) ==
    IF client = "null" THEN "noop"
    ELSE IF fails THEN "throws"
    ELSE "stored"

\* mutant: only a negative timeout disables the deadline
createScrapeContext_ZeroArms(timeoutSeconds) ==
    IF ~IsSome(timeoutSeconds) \/ Val(timeoutSeconds) < 0
    THEN "null"
    ELSE "armed"

\* the signal a new scrape context starts with
createScrapeContext(timeoutSeconds) ==
    IF ~IsSome(timeoutSeconds) \/ Val(timeoutSeconds) <= 0
    THEN "null"
    ELSE "armed"

\* clear(): clearTimeout on the deadline timer
clearScrapeTimeout(sig) == IF sig = "armed" THEN "cleared" ELSE sig

\* the second argument of scrapePirateBayStreams, None for the other scrapers
ScraperArgs(type) ==
    IF type = "movie" THEN <<None, None, Some("movie"), None>>
    ELSE <<None, None, Some("series"), None>>

\* the calls of the array literal: scraper, category, scrape context
ScraperStarts(type, context) ==
    [i \in 1..Len(ScraperCalls(type)) |->
        [scraper |-> ScraperCalls(type)[i],
         category |-> ScraperArgs(type)[i],
         context |-> context]]

\* mutant: the cached value is not consulted, every request scrapes
HandleStream_IgnoreCache(type, id, getFails) ==
    /\ pc = "idle"
    /\ nreq < MaxRequests
    /\ nreq' = nreq + 1
    /\ args' = [type |-> type, id |-> id]
    /\ status' = 0
    /\ IF type \notin Types
       THEN /\ pc' = "failed"
            /\ error' = Some(BadRequestError("Invalid type"))
            /\ UNCHANGED <<req, titleRequested, response, cacheHit, signal,
                           scrapers, started>>
       ELSE IF ~parseStremioId(id).ok
       THEN /\ pc' = "failed"
            /\ error' = Some(parseStremioId(id).error)
            /\ UNCHANGED <<req, titleRequested, response, cacheHit, signal,
                           scrapers, started>>
       ELSE LET parsed == parseStremioId(id).value
                key == buildCacheKey(type, parsed)
                got == getCache(key, getFails)
            IN /\ req' = [type |-> type, parsed |-> parsed]
               /\ titleRequested' = TRUE
               /\ IF ~got.ok
                  THEN /\ pc' = "failed"
                       /\ error' = Some(got.error)
                       /\ UNCHANGED <<response, cacheHit, signal, scrapers,
                                      started>>
                  ELSE /\ signal' = createScrapeContext(maxRequestWaitSeconds)
                       /\ scrapers' =
                            [s \in ScraperKeys |->
                                IF s \in Range(ScraperCalls(type))
                                THEN [phase |-> "running", got |-> <<>>]
                                ELSE scrapers[s]]
                       /\ started' = ScraperStarts(type, nreq + 1)
                       /\ pc' = "scraping"
                       /\ UNCHANGED <<response, cacheHit, error>>
    /\ UNCHANGED <<maxRequestWaitSeconds, cache, settledAtAbort, streams,
                   sortedStreams, written, origin, supplied, client>>
    /\ UNCHANGED <<idVars, httpVars, scrapeVars, searchVars, imdbVars>>

(* --------------------------------------------------------------- actions *)
\* handleStream up to the fan-out: validate the type, parse the id, build
\* the key, start the title lookup, read the cache; on a hit return the
\* parsed value, on a miss start the scrapers
HandleStream(type, id, getFails) ==
    /\ pc = "idle"
    /\ nreq < MaxRequests
    /\ nreq' = nreq + 1
    /\ args' = [type |-> type, id |-> id]
    /\ status' = 0
    /\ IF type \notin Types
       THEN /\ pc' = "failed"
            /\ error' = Some(BadRequestError("Invalid type"))
            /\ UNCHANGED <<req, titleRequested, response, cacheHit, signal,
                           scrapers, started>>
       ELSE IF ~parseStremioId(id).ok
       THEN /\ pc' = "failed"
            /\ error' = Some(parseStremioId(id).error)
            /\ UNCHANGED <<req, titleRequested, response, cacheHit, signal,
                           scrapers, started>>
       ELSE LET parsed == parseStremioId(id).value
                key == buildCacheKey(type, parsed)
                got == getCache(key, getFails)
            IN /\ req' = [type |-> type, parsed |-> parsed]
               /\ titleRequested' = TRUE
               /\ IF ~got.ok
                  THEN /\ pc' = "failed"
                       /\ error' = Some(got.error)
                       /\ UNCHANGED <<response, cacheHit, signal, scrapers,
                                      started>>
                  ELSE IF IsSome(got.value)
                  THEN /\ response' = Some(JSONparse(Val(got.value)))
                       /\ cacheHit' = TRUE
                       /\ pc' = "done"
                       /\ UNCHANGED <<signal, scrapers, started, error>>
                  ELSE /\ signal' = createScrapeContext(maxRequestWaitSeconds)
                       /\ scrapers' =
                            [s \in ScraperKeys |->
                                IF s \in Range(ScraperCalls(type))
                                THEN [phase |-> "running", got |-> <<>>]
                                ELSE scrapers[s]]
                       /\ started' = ScraperStarts(type, nreq + 1)
                       /\ pc' = "scraping"
                       /\ UNCHANGED <<response, cacheHit, error>>
    /\ UNCHANGED <<maxRequestWaitSeconds, cache, settledAtAbort, streams,
                   sortedStreams, written, origin, supplied, client>>
    /\ UNCHANGED <<idVars, httpVars, scrapeVars, searchVars, imdbVars>>

\* the deadline timer fires: controller.abort().  The scrapers start in the
\* same turn as the timer, and the continuation of Promise.allSettled runs
\* before any timer, so the signal fires only while a scraper is in flight.
DeadlineFires ==
    /\ pc = "scraping"
    /\ signal = "armed"
    /\ \E s \in Active : ~Settled(s)
    /\ signal' = "aborted"
    /\ settledAtAbort' = {s \in Active : Settled(s)}
    /\ UNCHANGED <<maxRequestWaitSeconds, cache, pc, req, scrapers, streams,
                   sortedStreams, response, cacheHit, written, origin,
                   nreq, supplied, client, args, error, status,
                   titleRequested, started>>
    /\ UNCHANGED <<idVars, httpVars, scrapeVars, searchVars, imdbVars>>

\* one detail fetch (or one ApiBay query) of a running scraper answers and
\* yields a stream.  A scraper reaches its detail fetches only past its
\* shouldAbort checks, and a fetch pending when the signal fires yields
\* nothing, so no stream is gained once the signal is aborted.
StreamFetched(s, stream) ==
    /\ pc = "scraping"
    /\ scrapers[s].phase = "running"
    /\ ~Aborted
    /\ supplied < MaxStreams
    /\ supplied' = supplied + 1
    /\ scrapers' = [scrapers EXCEPT ![s].got = Append(@, stream)]
    /\ UNCHANGED <<maxRequestWaitSeconds, cache, pc, req, signal,
                   settledAtAbort, streams, sortedStreams, response, cacheHit,
                   written, origin, nreq, client, args, error, status,
                   titleRequested, started>>
    /\ UNCHANGED <<idVars, httpVars, scrapeVars, searchVars, imdbVars>>

\* all fetches of a scraper have ended (answered, failed or aborted); it
\* returns its streams
ScraperReturns(s) ==
    /\ pc = "scraping"
    /\ scrapers[s].phase = "running"
    /\ scrapers' = [scrapers EXCEPT ![s] =
                      [phase |-> "fulfilled",
                       got |-> ScraperResult(s, scrapers[s].got, Aborted)]]
    /\ UNCHANGED <<maxRequestWaitSeconds, cache, pc, req, signal,
                   settledAtAbort, streams, sortedStreams, response, cacheHit,
                   written, origin, nreq, supplied, client, args, error,
                   status, titleRequested, started>>
    /\ UNCHANGED <<idVars, httpVars, scrapeVars, searchVars, imdbVars>>

\* a scraper throws while it searches: its promise rejects
ScraperThrows(s) ==
    /\ pc = "scraping"
    /\ scrapers[s].phase = "running"
    /\ scrapers[s].got = <<>>
    /\ scrapers' = [scrapers EXCEPT ![s] = [phase |-> "rejected", got |-> <<>>]]
    /\ UNCHANGED <<maxRequestWaitSeconds, cache, pc, req, signal,
                   settledAtAbort, streams, sortedStreams, response, cacheHit,
                   written, origin, nreq, supplied, client, args, error,
                   status, titleRequested, started>>
    /\ UNCHANGED <<idVars, httpVars, scrapeVars, searchVars, imdbVars>>

\* the reason a scraper's promise rejects with
ScraperError == [name |-> "Error", message |-> "scraper"]

\* mutant: Promise.all, which rejects as soon as one of the promises does
PromiseAllSettled_All(calls, scr) ==
    IF \E i \in 1..Len(calls) : scr[calls[i]].phase = "rejected"
    THEN Threw(ScraperError)
    ELSE Returned([i \in 1..Len(calls) |-> scr[calls[i]]])

\* await Promise.allSettled([...]): the results in call order; it never
\* rejects
PromiseAllSettled(calls, scr) ==
    Returned([i \in 1..Len(calls) |-> scr[calls[i]]])

\* responses.flatMap(...): the streams of the fulfilled scrapers, call order
RECURSIVE FulfilledStreams(_, _)
FulfilledStreams(calls, scr) ==
    IF calls = <<>> THEN <<>>
    ELSE (IF scr[Head(calls)].phase = "fulfilled"
          THEN scr[Head(calls)].got ELSE <<>>)
         \o FulfilledStreams(Tail(calls), scr)

NotZeroSeederMagnet(stream) == ~isZeroSeederMagnet(stream)

\* mutant: the cache is written whatever the response holds
ShouldCache_Always(resp) == TRUE

\* response.streams.length > 0: the guard of the cache write
ShouldCache(resp) == Len(resp.streams) > 0

\* Promise.allSettled has resolved: clear the timer, dedupe, filter, rank,
\* strip, write the cache when there is something to write, return
MergeAndRespond(setFails) ==
    /\ pc = "scraping"
    /\ \A s \in Active : Settled(s)
    /\ LET key == buildCacheKey(req.type, req.parsed)
           responses == PromiseAllSettled(ScraperCalls(req.type), scrapers)
           deduped == DedupeStreams(<<>>,
                         FulfilledStreams(ScraperCalls(req.type), scrapers))
           filteredStreams == SelectSeq(deduped, NotZeroSeederMagnet)
           sorted == ArraySort(filteredStreams)
           resp == [streams |->
                      [i \in 1..Len(sorted) |->
                         stripStreamExtras(
                            applyBingeGroup(sorted[i], req.parsed, req.type))]]
           set == setCache(setFails)
       IN IF ~responses.ok
          THEN /\ pc' = "failed"
               /\ error' = Some(responses.error)
               /\ UNCHANGED <<streams, sortedStreams, response, cache,
                              written, origin>>
          ELSE
          /\ streams' = deduped
          /\ sortedStreams' = sorted
          /\ IF ShouldCache(resp)
             THEN /\ written' = Some(JSONstringify(resp))
                  /\ IF set = "stored"
                     THEN /\ cache' =
                               [cache EXCEPT ![key] = Some(JSONstringify(resp))]
                          /\ origin' = [origin EXCEPT ![key] = Some(resp)]
                     ELSE UNCHANGED <<cache, origin>>
                  /\ IF set = "throws"
                     THEN /\ pc' = "failed"
                          /\ error' = Some(RedisError)
                          /\ UNCHANGED response
                     ELSE /\ pc' = "done"
                          /\ response' = Some(resp)
                          /\ UNCHANGED error
             ELSE /\ pc' = "done"
                  /\ response' = Some(resp)
                  /\ UNCHANGED <<cache, written, origin, error>>
    /\ signal' = clearScrapeTimeout(signal)
    /\ UNCHANGED <<maxRequestWaitSeconds, req, scrapers, settledAtAbort,
                   cacheHit, nreq, supplied, client, args, status,
                   titleRequested, started>>
    /\ UNCHANGED <<idVars, httpVars, scrapeVars, searchVars, imdbVars>>

\* mutant: every failure is answered with 500
FrontEndStatus_All500(err) ==
    IF ~IsSome(err) THEN 200 ELSE 500

\* the stream route of the front-end: 200 with the result, 400 for a
\* BadRequestError, 500 for any other exception
FrontEndStatus(err) ==
    IF ~IsSome(err) THEN 200
    ELSE IF Val(err).name = "BadRequestError" THEN 400
    ELSE 500

\* the handler has returned or thrown: the front-end answers, and the
\* handler's locals are gone
Return ==
    /\ pc \in {"done", "failed"}
    /\ status' = FrontEndStatus(error)
    /\ pc' = "idle"
    /\ req' = NoRequest
    /\ args' = NoArgs
    /\ error' = None
    /\ titleRequested' = FALSE
    /\ started' = <<>>
    /\ signal' = "null"
    /\ scrapers' = IdleScrapers
    /\ settledAtAbort' = {}
    /\ streams' = <<>>
    /\ sortedStreams' = <<>>
    /\ response' = None
    /\ cacheHit' = FALSE
    /\ written' = None
    /\ UNCHANGED <<maxRequestWaitSeconds, cache, origin, nreq, supplied,
                   client>>
    /\ UNCHANGED <<idVars, httpVars, scrapeVars, searchVars, imdbVars>>

Next ==
    \/ \E type \in RequestTypes, id \in RequestIds, getFails \in BOOLEAN :
          HandleStream(type, id, getFails)
    \/ DeadlineFires
    \/ \E s \in ScraperKeys, stream \in LiveStreams : StreamFetched(s, stream)
    \/ \E s \in ScraperKeys : ScraperReturns(s)
    \/ \E s \in ScraperKeys : ScraperThrows(s)
    \/ \E setFails \in BOOLEAN : MergeAndRespond(setFails)
    \/ Return

Spec == Init /\ [][Next]_vars

\* the requests followed to their end, one after the other
FairNext ==
    \/ \E type \in RequestTypes, id \in RequestIds, getFails \in BOOLEAN :
          /\ nreq < MaxFairRequests
          /\ HandleStream(type, id, getFails)
    \/ DeadlineFires
    \/ \E s \in ScraperKeys, stream \in LiveStreams :
          /\ supplied < MaxFairStreams
          /\ StreamFetched(s, stream)
    \/ \E s \in ScraperKeys : ScraperReturns(s)
    \/ \E s \in ScraperKeys : ScraperThrows(s)
    \/ \E setFails \in BOOLEAN : MergeAndRespond(setFails)
    \/ Return

\* Promise.allSettled can resolve: every scraper started has settled
CanMerge == pc = "scraping" /\ \A s \in Active : Settled(s)

\* every call the handler awaits returns in the end: each scraper started
\* settles (its fetches answer, fail or time out); Promise.allSettled and
\* setCache resolve (weak fairness of MergeAndRespond, with its guard
\* written out); and the front-end answers
Fairness ==
    /\ \A s \in ScraperKeys : WF_vars(ScraperReturns(s) \/ ScraperThrows(s))
    /\ \/ []<>~CanMerge
       \/ []<><<\E setFails \in BOOLEAN : MergeAndRespond(setFails)>>_vars
    /\ WF_vars(Return)

FairSpec == Init /\ [][FairNext]_vars /\ Fairness

(* ------------------------------------------------- the merge on its own *)
\* Every way the scrapers of one request can have settled with at most
\* MaxMerged streams in all: the streams q cut into one run per scraper, a
\* scraper without streams fulfilled or rejected.  No deadline is configured.
SeqsUpTo(S, n) == UNION {[1..k -> S] : k \in 0..n}

SettledScrapers(type, q, c1, c2, c3, rejected) ==
    LET calls == ScraperCalls(type)
        cuts == <<0, c1, c2, c3, Len(q)>>
        Run(i) == SubSeq(q, cuts[i] + 1, cuts[i + 1])
    IN [s \in ScraperKeys |->
          IF \E i \in 1..4 : calls[i] = s
          THEN LET i == CHOOSE j \in 1..4 : calls[j] = s
               IN IF i \in rejected
                  THEN [phase |-> "rejected", got |-> <<>>]
                  ELSE [phase |-> "fulfilled", got |-> Run(i)]
          ELSE [phase |-> "idle", got |-> <<>>]]

MergeInit ==
    /\ maxRequestWaitSeconds = Some(0)
    /\ cache = [k \in CacheKeys |-> None]
    /\ pc = "scraping"
    /\ \E type \in Types, parsed \in ParsedIds :
          req = [type |-> type, parsed |-> parsed]
    /\ signal = "null"
    /\ \E q \in SeqsUpTo(UpstreamStreams, MaxMerged) :
       \E c1 \in 0..Len(q) : \E c2 \in c1..Len(q) : \E c3 \in c2..Len(q) :
       \E rejected \in SUBSET (1..4) :
          /\ \A i \in rejected :
                <<0, c1, c2, c3, Len(q)>>[i] = <<0, c1, c2, c3, Len(q)>>[i + 1]
          /\ scrapers = SettledScrapers(req.type, q, c1, c2, c3, rejected)
          /\ supplied = Len(q)
    /\ settledAtAbort = {}
    /\ streams = <<>>
    /\ sortedStreams = <<>>
    /\ response = None
    /\ cacheHit = FALSE
    /\ written = None
    /\ origin = [k \in CacheKeys |-> None]
    /\ nreq = 1
    /\ client \in ClientChoices
    /\ args = [type |-> req.type,
               id |-> IF "season" \in DOMAIN req.parsed
                      THEN <<req.parsed.baseId, NumStr(req.parsed.season),
                             NumStr(req.parsed.episode)>>
                      ELSE <<req.parsed.baseId>>]
    /\ error = None
    /\ status = 0
    /\ titleRequested = TRUE
    /\ started = ScraperStarts(req.type, 1)
    /\ IdIdle
    /\ HttpIdle
    /\ ScrapeIdle
    /\ SearchIdle
    /\ ImdbIdle

MergeSpec ==
    MergeInit /\ [][\E setFails \in BOOLEAN : MergeAndRespond(setFails)]_vars

(* ------------------------------------------------ the id parser on its own *)
IdInit ==
    /\ AddonInit
    /\ idInput \in Ids
    /\ idResult = None
    /\ HttpIdle
    /\ ScrapeIdle
    /\ SearchIdle
    /\ ImdbIdle

\* parseStremioId(id) is called
ParseId ==
    /\ idResult = None
    /\ idResult' = Some(parseStremioId(idInput))
    /\ UNCHANGED <<idInput, addonVars, httpVars, scrapeVars, searchVars,
                   imdbVars>>

IdSpec == IdInit /\ [][ParseId]_vars

(* ------------------------------------------- the HTTP layer on its own *)
(* scrapers/http.ts: the FlareSolverr pools, the front-page probes, the     *)
(* fetchText / fetchJson calls and the session refresh.  A step runs from   *)
(* one await to the next; a request is in flight between two steps.         *)

\* the scrapers with urls configured: one pool is built for each
EnabledScrapers == {"x1337x"}

\* buildFlareSolverrPoolConfigs: applySessionCap(config.flareSolverrSessions)
SessionCount(key, sessionCap) == IF sessionCap > 0 THEN sessionCap ELSE 0

\* `fs-${pool.key}-${index + 1}`
SessionId(key, i) == <<"fs", key, i>>

\* the requests of the HTTP layer
DirectGet(key) ==
    [cmd |-> "GET", url |-> "upstream", scraper |-> key, session |-> None]
RequestGet(key, url, session) ==
    [cmd |-> "request.get", url |-> url, scraper |-> key, session |-> session]
SessionsCreate(key, session) ==
    [cmd |-> "sessions.create", url |-> "service", scraper |-> key,
     session |-> Some(session)]
SessionsDestroy(key, session) ==
    [cmd |-> "sessions.destroy", url |-> "service", scraper |-> key,
     session |-> Some(session)]

\* initFlareSolverrPool: the pool a configuration starts with
NewPool(key) ==
    [sessionCount |-> SessionCount(key, config.flareSolverrSessions),
     sessions |-> <<>>, index |-> 0, refreshInFlight |-> FALSE,
     useAlways |-> FALSE]

\* mutant: the cursor of the pool stays where it is
resolveFlareSolverrSession_Stuck(pool) ==
    IF Len(pool.sessions) = 0
    THEN [session |-> None, pool |-> pool]
    ELSE [session |-> Some(pool.sessions[(pool.index % Len(pool.sessions)) + 1]),
          pool |-> pool]

\* getNextFlareSolverrSession, through resolveFlareSolverrSession: the
\* session handed out and the pool with its cursor advanced
resolveFlareSolverrSession(pool) ==
    IF Len(pool.sessions) = 0
    THEN [session |-> None, pool |-> pool]
    ELSE [session |-> Some(pool.sessions[(pool.index % Len(pool.sessions)) + 1]),
          pool |-> [pool EXCEPT !.index = @ + 1]]

\* mutant: the mode of the pool is not written
markFlareSolverrRequired_Never(pool) == pool

markFlareSolverrRequired(pool) == [pool EXCEPT !.useAlways = TRUE]

\* the request through the bypass service that ends a probe or a call
ViaBypass(key, pool) ==
    LET next == resolveFlareSolverrSession(pool)
    IN [pc |-> "bypass", pool |-> next.pool,
        sent |-> <<RequestGet(key, "page", next.session)>>]

\* mutant: the sessions are not warmed
WarmThenBypass_NoWarm(key, pool) == ViaBypass(key, pool)

\* warmupFlareSolverrPool, then the bypass request
WarmThenBypass(key, pool) ==
    IF Len(pool.sessions) = 0 \/ ~pool.useAlways
    THEN ViaBypass(key, pool)
    ELSE [pc |-> "warming", pool |-> pool,
          sent |-> [i \in 1..Len(pool.sessions) |->
                       RequestGet(key, "warmup", Some(pool.sessions[i]))]]

\* mutant: the sessions are created for a pool that is not marked
enableFlareSolverrForPool_Unmarked(key, pool) ==
    IF pool.sessionCount <= 0 \/ Len(pool.sessions) > 0
    THEN WarmThenBypass(key, pool)
    ELSE [pc |-> "creating", pool |-> pool,
          sent |-> [i \in 1..pool.sessionCount |->
                       SessionsCreate(key, SessionId(key, i))]]

\* enableFlareSolverrForPool up to its first request: mark the pool, create
\* its sessions when it has none, else warm them
enableFlareSolverrForPool(key, pool) ==
    LET marked == markFlareSolverrRequired(pool)
    IN IF marked.sessionCount <= 0 \/ Len(marked.sessions) > 0
       THEN WarmThenBypass(key, marked)
       ELSE [pc |-> "creating", pool |-> marked,
             sent |-> [i \in 1..marked.sessionCount |->
                          SessionsCreate(key, SessionId(key, i))]]

\* mutant: initialisation runs again whenever it is asked for
AlreadyInitialised_Never == FALSE

\* flareSolverrSessionInitAttempted, the guard of initFlareSolverrSessions
AlreadyInitialised == flareSolverrSessionInitAttempted

\* initFlareSolverrSessions up to the front-page probes: nothing on a second
\* call; else take the url from the configuration, build one pool per
\* enabled scraper and send the probes
InitFlareSolverrSessions ==
    /\ inits < MaxInits
    /\ inits' = inits + 1
    /\ IF AlreadyInitialised
       THEN /\ sent' = <<>>
            /\ UNCHANGED <<flareSolverrUrl, flareSolverrPools,
                           flareSolverrSessionInitAttempted, initPc, tasks>>
       ELSE /\ flareSolverrUrl' = config.flareSolverrUrl
            /\ flareSolverrSessionInitAttempted' = TRUE
            /\ IF ~IsSome(config.flareSolverrUrl)
               THEN /\ initPc' = "done"
                    /\ sent' = <<>>
                    /\ UNCHANGED <<flareSolverrPools, tasks>>
               ELSE /\ flareSolverrPools' =
                         [key \in EnabledScrapers |-> NewPool(key)]
                    /\ LET keys == CHOOSE q \in [1..Cardinality(EnabledScrapers)
                                                   -> EnabledScrapers] :
                                      Range(q) = EnabledScrapers
                       IN /\ tasks' = tasks \o
                               [i \in 1..Len(keys) |->
                                   [kind |-> "probe", scraper |-> keys[i],
                                    pc |-> "direct", result |-> None]]
                          /\ sent' = [i \in 1..Len(keys) |-> DirectGet(keys[i])]
                    /\ initPc' = "probing"
    /\ UNCHANGED <<config, flareSolverrRefreshTimer, passes, ticks>>
    /\ received' = None
    /\ UNCHANGED <<fired, live>>
    /\ UNCHANGED <<addonVars, idVars, scrapeVars, searchVars, imdbVars>>

\* the probes have all ended: set the refresh interval
InitCompletes ==
    /\ initPc = "probing"
    /\ \A i \in 1..Len(tasks) : tasks[i].kind = "probe" => tasks[i].pc = "done"
    /\ initPc' = "done"
    /\ flareSolverrRefreshTimer' =
          (flareSolverrRefreshTimer \/ config.flareSolverrSessionRefreshMs > 0)
    /\ sent' = <<>>
    /\ UNCHANGED <<config, flareSolverrUrl, flareSolverrPools,
                   flareSolverrSessionInitAttempted, tasks, passes, inits,
                   ticks>>
    /\ received' = None
    /\ UNCHANGED <<fired, live>>
    /\ UNCHANGED <<addonVars, idVars, scrapeVars, searchVars, imdbVars>>

\* the fetchText / fetchJson calls made so far
NumCalls == Cardinality({i \in 1..Len(tasks) : tasks[i].kind = "call"})

\* fetchTextWithFallback up to its first request: nothing with an aborted
\* signal; through the bypass service when the pool is force-bypass; else
\* the standard path
FetchText(key, aborted) ==
    /\ NumCalls < MaxCalls
    /\ LET call == [kind |-> "call", scraper |-> key, pc |-> "direct",
                    result |-> None]
       IN IF aborted
          THEN /\ tasks' = Append(tasks, [call EXCEPT !.pc = "done"])
               /\ sent' = <<>>
               /\ UNCHANGED flareSolverrPools
          ELSE IF IsSome(flareSolverrUrl) /\ key \in DOMAIN flareSolverrPools
                  /\ flareSolverrPools[key].useAlways
          THEN LET via == ViaBypass(key, flareSolverrPools[key])
               IN /\ tasks' = Append(tasks, [call EXCEPT !.pc = "forced"])
                  /\ sent' = via.sent
                  /\ flareSolverrPools' =
                        [flareSolverrPools EXCEPT ![key] = via.pool]
          ELSE /\ tasks' = Append(tasks, call)
               /\ sent' = <<DirectGet(key)>>
               /\ UNCHANGED flareSolverrPools
    /\ UNCHANGED <<config, flareSolverrUrl, flareSolverrSessionInitAttempted,
                   flareSolverrRefreshTimer, initPc, passes, inits, ticks>>
    /\ received' = None
    /\ fired' = IF aborted THEN fired \cup {Len(tasks) + 1} ELSE fired
    /\ UNCHANGED live
    /\ UNCHANGED <<addonVars, idVars, scrapeVars, searchVars, imdbVars>>

\* the outcomes of a request on the standard path: no response (network
\* error, timeout), or a response with this status
DirectOutcomes == {"none", "200", "401", "403", "500"}

\* mutant: every failure of the standard path goes to the bypass service
NeedsBypass_AnyFailure(outcome) == outcome # "200"

\* response.status === 401 || response.status === 403
NeedsBypass(outcome) == outcome \in {"401", "403"}

\* the standard path answers a probe or a call.  A probe goes on only on 401
\* or 403, and then enables its pool; a call returns the text of a 2xx,
\* falls back to the bypass service on 401 or 403 (enabling a pool that is
\* not force-bypass yet), and returns null otherwise
DirectAnswers(i, outcome) ==
    /\ i \in 1..Len(tasks)
    /\ tasks[i].pc = "direct"
    /\ i \in fired => outcome = "none"
    /\ LET key == tasks[i].scraper
           hasPool == key \in DOMAIN flareSolverrPools
       IN IF ~NeedsBypass(outcome)
          THEN /\ tasks' = [tasks EXCEPT ![i].pc = "done",
                               ![i].result = IF outcome = "200"
                                                /\ tasks[i].kind = "call"
                                             THEN Some("text") ELSE None]
               /\ sent' = <<>>
               /\ UNCHANGED flareSolverrPools
          ELSE IF ~IsSome(flareSolverrUrl) \/ ~hasPool
          THEN IF IsSome(flareSolverrUrl) /\ tasks[i].kind = "call"
               THEN /\ tasks' = [tasks EXCEPT ![i].pc = "bypass"]
                    /\ sent' = <<RequestGet(key, "page", None)>>
                    /\ UNCHANGED flareSolverrPools
               ELSE /\ tasks' = [tasks EXCEPT ![i].pc = "done"]
                    /\ sent' = <<>>
                    /\ UNCHANGED flareSolverrPools
          ELSE LET pool == flareSolverrPools[key]
                   step == IF tasks[i].kind = "call" /\ pool.useAlways
                           THEN ViaBypass(key, pool)
                           ELSE enableFlareSolverrForPool(key, pool)
               IN /\ tasks' = [tasks EXCEPT ![i].pc = step.pc]
                  /\ sent' = step.sent
                  /\ flareSolverrPools' =
                        [flareSolverrPools EXCEPT ![key] = step.pool]
    /\ UNCHANGED <<config, flareSolverrUrl, flareSolverrSessionInitAttempted,
                   flareSolverrRefreshTimer, initPc, passes, inits, ticks>>
    /\ received' = Some([task |-> i, status |-> outcome])
    /\ UNCHANGED <<fired, live>>
    /\ UNCHANGED <<addonVars, idVars, scrapeVars, searchVars, imdbVars>>

\* fetchTextViaFlareSolverr with a signal that has fired: createAbortController
\* aborts at once and fetch rejects without a request; the session has been
\* taken from the pool before
Cancelled(i, step) ==
    IF i \in fired /\ step.pc = "bypass"
    THEN [step EXCEPT !.pc = "done", !.sent = <<>>]
    ELSE step

\* the sessions.create requests of createFlareSolverrSessionsForPool have
\* all answered, those in created with success: push them, then warm
RECURSIVE PushCreated(_, _, _)
PushCreated(sessions, key, created) ==
    IF created = {} THEN sessions
    ELSE LET least == CHOOSE n \in created : \A m \in created : n <= m
         IN PushCreated(Append(sessions, SessionId(key, least)), key,
                        created \ {least})

SessionsCreated(i, created) ==
    /\ i \in 1..Len(tasks)
    /\ tasks[i].pc = "creating"
    /\ LET key == tasks[i].scraper
           pool == flareSolverrPools[key]
           filled == [pool EXCEPT
                        !.sessions = PushCreated(@, key, created)]
           step == Cancelled(i, WarmThenBypass(key, filled))
       IN /\ created \subseteq 1..pool.sessionCount
          /\ tasks' = [tasks EXCEPT ![i].pc = step.pc]
          /\ sent' = step.sent
          /\ flareSolverrPools' = [flareSolverrPools EXCEPT ![key] = step.pool]
    /\ UNCHANGED <<config, flareSolverrUrl, flareSolverrSessionInitAttempted,
                   flareSolverrRefreshTimer, initPc, passes, inits, ticks>>
    /\ received' = None
    /\ live' = live \cup {SessionId(tasks[i].scraper, n) : n \in created}
    /\ UNCHANGED fired
    /\ UNCHANGED <<addonVars, idVars, scrapeVars, searchVars, imdbVars>>

\* the warm-up requests of warmupFlareSolverrPool have all answered
PoolWarmed(i) ==
    /\ i \in 1..Len(tasks)
    /\ tasks[i].pc = "warming"
    /\ LET key == tasks[i].scraper
           step == Cancelled(i, ViaBypass(key, flareSolverrPools[key]))
       IN /\ tasks' = [tasks EXCEPT ![i].pc = step.pc]
          /\ sent' = step.sent
          /\ flareSolverrPools' = [flareSolverrPools EXCEPT ![key] = step.pool]
    /\ UNCHANGED <<config, flareSolverrUrl, flareSolverrSessionInitAttempted,
                   flareSolverrRefreshTimer, initPc, passes, inits, ticks>>
    /\ received' = None
    /\ UNCHANGED <<fired, live>>
    /\ UNCHANGED <<addonVars, idVars, scrapeVars, searchVars, imdbVars>>

\* the bypass service answers the request that ends a probe or a call, with
\* a text or with a failure; a text marks the pool of a fallback
BypassAnswers(i, ok) ==
    /\ i \in 1..Len(tasks)
    /\ tasks[i].pc \in {"bypass", "forced"}
    /\ i \in fired => ~ok
    /\ LET key == tasks[i].scraper
       IN /\ tasks' = [tasks EXCEPT ![i].pc = "done",
                          ![i].result = IF ok /\ tasks[i].kind = "call"
                                        THEN Some("text") ELSE None]
          /\ IF ok /\ tasks[i].pc = "bypass" /\ key \in DOMAIN flareSolverrPools
             THEN flareSolverrPools' =
                     [flareSolverrPools EXCEPT
                         ![key] = markFlareSolverrRequired(@)]
             ELSE UNCHANGED flareSolverrPools
    /\ sent' = <<>>
    /\ UNCHANGED <<config, flareSolverrUrl, flareSolverrSessionInitAttempted,
                   flareSolverrRefreshTimer, initPc, passes, inits, ticks>>
    /\ received' = None
    /\ UNCHANGED <<fired, live>>
    /\ UNCHANGED <<addonVars, idVars, scrapeVars, searchVars, imdbVars>>

\* mutant: a pass starts while another is in flight
ShouldRefresh_NoFlag(pool) ==
    ~(Len(pool.sessions) = 0 \/ ~pool.useAlways)

\* the guard of refreshFlareSolverrPool
ShouldRefresh(pool) ==
    ~(pool.refreshInFlight \/ Len(pool.sessions) = 0 \/ ~pool.useAlways)

\* the pools in the order the Map iterates them
PoolOrder ==
    CHOOSE q \in [1..Cardinality(DOMAIN flareSolverrPools)
                    -> DOMAIN flareSolverrPools] :
        Range(q) = DOMAIN flareSolverrPools

\* the passes a tick starts, pool after pool
RECURSIVE StartedPasses(_)
StartedPasses(keys) ==
    IF keys = <<>> THEN <<>>
    ELSE (IF ShouldRefresh(flareSolverrPools[Head(keys)])
          THEN << [scraper |-> Head(keys), index |-> 0, step |-> "warm",
                   session |-> flareSolverrPools[Head(keys)].sessions[1]] >>
          ELSE <<>>)
         \o StartedPasses(Tail(keys))

\* the refresh timer ticks: refreshFlareSolverrPool for every pool, each up
\* to its first warm-up request
RefreshTick ==
    /\ flareSolverrRefreshTimer
    /\ ticks < MaxTicks
    /\ ticks' = ticks + 1
    /\ LET begun == StartedPasses(PoolOrder)
       IN /\ passes' = passes \o begun
          /\ sent' = [i \in 1..Len(begun) |->
                         RequestGet(begun[i].scraper, "warmup",
                                    Some(begun[i].session))]
          /\ flareSolverrPools' =
                [key \in DOMAIN flareSolverrPools |->
                    IF \E i \in 1..Len(begun) : begun[i].scraper = key
                    THEN [flareSolverrPools[key] EXCEPT
                             !.refreshInFlight = TRUE]
                    ELSE flareSolverrPools[key]]
    /\ UNCHANGED <<config, flareSolverrUrl, flareSolverrSessionInitAttempted,
                   flareSolverrRefreshTimer, initPc, tasks, inits>>
    /\ received' = None
    /\ UNCHANGED <<fired, live>>
    /\ UNCHANGED <<addonVars, idVars, scrapeVars, searchVars, imdbVars>>

RemoveAt(seq, i) == SubSeq(seq, 1, i - 1) \o SubSeq(seq, i + 1, Len(seq))

\* mutant: a pass leaves out every other session
NextSession_SkipOne(p) ==
    LET pass == passes[p]
        key == pass.scraper
        pool == flareSolverrPools[key]
        index == pass.index + 2
    IN IF index < Len(pool.sessions)
       THEN /\ passes' = [passes EXCEPT ![p] =
                             [scraper |-> key, index |-> index,
                              step |-> "warm",
                              session |-> pool.sessions[index + 1]]]
            /\ sent' = <<RequestGet(key, "warmup",
                                    Some(pool.sessions[index + 1]))>>
            /\ UNCHANGED flareSolverrPools
       ELSE /\ passes' = RemoveAt(passes, p)
            /\ sent' = <<>>
            /\ flareSolverrPools' =
                  [flareSolverrPools EXCEPT ![key].refreshInFlight = FALSE]

\* a pass goes on to the next session, or ends and clears the flag
NextSession(p) ==
    LET pass == passes[p]
        key == pass.scraper
        pool == flareSolverrPools[key]
        index == pass.index + 1
    IN IF index < Len(pool.sessions)
       THEN /\ passes' = [passes EXCEPT ![p] =
                             [scraper |-> key, index |-> index,
                              step |-> "warm",
                              session |-> pool.sessions[index + 1]]]
            /\ sent' = <<RequestGet(key, "warmup",
                                    Some(pool.sessions[index + 1]))>>
            /\ UNCHANGED flareSolverrPools
       ELSE /\ passes' = RemoveAt(passes, p)
            /\ sent' = <<>>
            /\ flareSolverrPools' =
                  [flareSolverrPools EXCEPT ![key].refreshInFlight = FALSE]

\* the warm-up of a session answers: go on if it is warm, else destroy it
RefreshWarmAnswers(p, warmed) ==
    /\ p \in 1..Len(passes)
    /\ passes[p].step = "warm"
    /\ IF warmed
       THEN NextSession(p)
       ELSE /\ passes' = [passes EXCEPT ![p].step = "destroy"]
            /\ sent' = <<SessionsDestroy(passes[p].scraper, passes[p].session)>>
            /\ UNCHANGED flareSolverrPools
    /\ UNCHANGED <<config, flareSolverrUrl, flareSolverrSessionInitAttempted,
                   flareSolverrRefreshTimer, initPc, tasks, inits, ticks>>
    /\ received' = None
    /\ UNCHANGED <<fired, live>>
    /\ UNCHANGED <<addonVars, idVars, scrapeVars, searchVars, imdbVars>>

\* sessions.destroy answers, the session destroyed or not (the result is not
\* looked at): create it again
RefreshDestroyAnswers(p, destroyed) ==
    /\ p \in 1..Len(passes)
    /\ passes[p].step = "destroy"
    /\ passes' = [passes EXCEPT ![p].step = "create"]
    /\ sent' = <<SessionsCreate(passes[p].scraper, passes[p].session)>>
    /\ UNCHANGED <<config, flareSolverrUrl, flareSolverrPools,
                   flareSolverrSessionInitAttempted, flareSolverrRefreshTimer,
                   initPc, tasks, inits, ticks>>
    /\ received' = None
    /\ live' = IF destroyed THEN live \ {passes[p].session} ELSE live
    /\ UNCHANGED fired
    /\ UNCHANGED <<addonVars, idVars, scrapeVars, searchVars, imdbVars>>

\* the answers to sessions.create in a pass: a failure, or the session,
\* which the service names as it was asked to (payload.session ?? session)
Recreated(session) == {None, Some(session)}

\* sessions.create answers: on a failure go on, else put the session in
\* its slot and warm it
RefreshCreateAnswers(p, recreated) ==
    /\ p \in 1..Len(passes)
    /\ passes[p].step = "create"
    /\ recreated \in Recreated(passes[p].session)
    /\ IF ~IsSome(recreated)
       THEN NextSession(p)
       ELSE /\ passes' = [passes EXCEPT ![p].step = "rewarm",
                                        ![p].session = Val(recreated)]
            /\ flareSolverrPools' =
                  [flareSolverrPools EXCEPT
                      ![passes[p].scraper].sessions[passes[p].index + 1] =
                          Val(recreated)]
            /\ sent' = <<RequestGet(passes[p].scraper, "warmup", recreated)>>
    /\ UNCHANGED <<config, flareSolverrUrl, flareSolverrSessionInitAttempted,
                   flareSolverrRefreshTimer, initPc, tasks, inits, ticks>>
    /\ received' = None
    /\ live' = IF IsSome(recreated) THEN live \cup {Val(recreated)} ELSE live
    /\ UNCHANGED fired
    /\ UNCHANGED <<addonVars, idVars, scrapeVars, searchVars, imdbVars>>

\* the warm-up of a re-created session answers
RefreshRewarmAnswers(p) ==
    /\ p \in 1..Len(passes)
    /\ passes[p].step = "rewarm"
    /\ NextSession(p)
    /\ UNCHANGED <<config, flareSolverrUrl, flareSolverrSessionInitAttempted,
                   flareSolverrRefreshTimer, initPc, tasks, inits, ticks>>
    /\ received' = None
    /\ UNCHANGED <<fired, live>>
    /\ UNCHANGED <<addonVars, idVars, scrapeVars, searchVars, imdbVars>>

\* the configurations followed: bypass service set or not, sessions asked
\* for or not, refresh interval set or not
Configs ==
    [flareSolverrUrl : {None, Some("fs")},
     flareSolverrSessions : {0, MaxSessions},
     flareSolverrSessionRefreshMs : {0, 1}]

PoolInit ==
    /\ AddonInit
    /\ maxRequestWaitSeconds = Some(0)
    /\ IdIdle
    /\ config \in Configs
    /\ flareSolverrUrl = None
    /\ flareSolverrPools = << >>
    /\ flareSolverrSessionInitAttempted = FALSE
    /\ flareSolverrRefreshTimer = FALSE
    /\ initPc = "none"
    /\ tasks = <<>>
    /\ passes = <<>>
    /\ sent = <<>>
    /\ received = None
    /\ inits = 0
    /\ ticks = 0
    /\ fired = {}
    /\ live = {}
    /\ ScrapeIdle
    /\ SearchIdle
    /\ ImdbIdle

PoolNext ==
    \/ InitFlareSolverrSessions
    \/ InitCompletes
    \/ \E key \in EnabledScrapers, aborted \in BOOLEAN : FetchText(key, aborted)
    \/ \E i \in 1..Len(tasks), outcome \in DirectOutcomes :
          DirectAnswers(i, outcome)
    \/ \E i \in 1..Len(tasks), created \in SUBSET (1..MaxSessions) :
          SessionsCreated(i, created)
    \/ \E i \in 1..Len(tasks) : PoolWarmed(i)
    \/ \E i \in 1..Len(tasks), ok \in BOOLEAN : BypassAnswers(i, ok)
    \/ RefreshTick
    \/ \E p \in 1..Len(passes), warmed \in BOOLEAN : RefreshWarmAnswers(p, warmed)
    \/ \E p \in 1..Len(passes), destroyed \in BOOLEAN :
          RefreshDestroyAnswers(p, destroyed)
    \/ \E p \in 1..Len(passes) :
          \E recreated \in Recreated(passes[p].session) :
             RefreshCreateAnswers(p, recreated)
    \/ \E p \in 1..Len(passes) : RefreshRewarmAnswers(p)

PoolSpec == PoolInit /\ [][PoolNext]_vars

\* the signal of a call that has not returned fires: the deadline of the
\* request has passed
SignalFires(i) ==
    /\ i \in 1..Len(tasks)
    /\ tasks[i].kind = "call"
    /\ tasks[i].pc # "done"
    /\ i \notin fired
    /\ fired' = fired \cup {i}
    /\ sent' = <<>>
    /\ received' = None
    /\ UNCHANGED <<config, flareSolverrUrl, flareSolverrPools,
                   flareSolverrSessionInitAttempted, flareSolverrRefreshTimer,
                   initPc, tasks, passes, inits, ticks, live>>
    /\ UNCHANGED <<addonVars, idVars, scrapeVars, searchVars, imdbVars>>

\* the HTTP layer with calls whose signal fires while they are in flight
CancelNext ==
    \/ PoolNext
    \/ \E i \in 1..Len(tasks) : SignalFires(i)

CancelSpec == PoolInit /\ [][CancelNext]_vars

(* ------------------------------------------ a scraper call on its own *)
\* scrapeTorrentGalaxyStreams, scrapeX1337xStreams and
\* scrapePirateBayStreams, one call followed await by await, with the
\* deadline of the request free to pass between any two of them.

\* limits.js is not part of the sources at hand: the value is a stand-in
TGX_DETAIL_LIMIT == 2

\* the cap of fetchResultsForQuery
ApiBayResultLimit == 20

MOVIE_CATEGORIES == <<207, 201>>
SERIES_CATEGORIES == <<208, 205>>

FollowedScrapers == {"tgx", "x1337x", "tpb"}

\* the parsed ids of the calls: a title, a season without an episode, an
\* episode
ParsedChoices ==
    { [baseId |-> "tt1"],
      [baseId |-> "tt1", season |-> 1],
      [baseId |-> "tt1", season |-> 1, episode |-> 2] }

\* what getTitleBasics answers: nothing, a film with its year, a series, a
\* title made of a mark only
BasicsChoices ==
    { None,
      Some([primaryTitle |-> <<Word("show")>>, originalTitle |-> <<>>,
            titleType |-> Some("movie"), startYear |-> Some(2020)]),
      Some([primaryTitle |-> <<Word("show")>>, originalTitle |-> <<>>,
            titleType |-> Some("tvSeries"), startYear |-> None]),
      Some([primaryTitle |-> <<Word("!")>>, originalTitle |-> <<>>,
            titleType |-> Some("movie"), startYear |-> None]) }

\* config.flareSolverrSessions as the 1337x scraper may find it
SessionChoices == {0, MaxLinks}

ScrapeCalls ==
    {[scraper |-> "tgx", type |-> "series", parsed |-> parsed,
      urls |-> urls, flareSolverrSessions |-> 0] :
        parsed \in ParsedChoices, urls \in 0..MaxUrls}
    \cup
    {[scraper |-> "x1337x", type |-> "series", parsed |-> parsed,
      urls |-> urls, flareSolverrSessions |-> sessions] :
        parsed \in ParsedChoices, urls \in 0..MaxUrls,
        sessions \in SessionChoices}
    \cup
    {[scraper |-> "tpb", type |-> type, parsed |-> parsed,
      urls |-> urls, flareSolverrSessions |-> 0] :
        parsed \in ParsedChoices, urls \in 0..MaxUrls, type \in Types}

\* the lists a search page or an API answer may hold: some of the
\* candidates, each once, in the order of the listing
SearchPages ==
    {SelectSeq(Listing, LAMBDA link : link \in shown) :
        shown \in {some \in SUBSET Catalogue : Cardinality(some) <= MaxLinks}}

\* shouldAbort(context)
shouldAbort == contextAborted

\* a promise of Promise.allSettled: not settled, or settled with a value
Unsettled == [settled |-> FALSE, value |-> None]
SettledWith(value) == [settled |-> TRUE, value |-> value]
AllSettled(replies) == \A i \in 1..Len(replies) : replies[i].settled

\* return { streams }
Returns(run, found) ==
    [run EXCEPT !.pc = "done", !.result = Some([streams |-> found])]

\* parseMagnet(magnet) of a magnet that carries the hash
parseMagnet(magnet) == Some([infoHash |-> magnet])

\* the stream made of a candidate and its magnet
StreamOf(link, source, magnet) ==
    [torrentName |-> link.name, source |-> source,
     infoHash |-> Val(parseMagnet(magnet)).infoHash,
     seeders |-> link.seeders]

SourceOf(scraper) ==
    CASE scraper = "tgx" -> "TGX"
      [] scraper = "x1337x" -> "1337x"
      [] OTHER -> "TPB"

\* TGX_DETAIL_LIMIT, or searchLimit = Math.max(1, detailLimit)
SearchLimit ==
    IF scrapeCall.scraper = "tgx" THEN TGX_DETAIL_LIMIT
    ELSE IF scrapeCall.flareSolverrSessions > 1
         THEN scrapeCall.flareSolverrSessions ELSE 1

\* the text of the query searched for
QueryText(queries, which) ==
    IF which = "primary" THEN queries.query ELSE Val(queries.fallbackQuery)

\* buildSearchUrl(base, query, page) is requested
HtmlSearch(run, which, url, page, links) ==
    [run EXCEPT !.pc = "search", !.which = which, !.url = url,
                !.page = page, !.links = links,
                !.searches = Append(@, [which |-> which,
                                        text |-> QueryText(Val(run.queries),
                                                           which),
                                        url |-> url, at |-> page])]

\* if (episodeSuffix) filteredLinks = filteredLinks.filter(matchesEpisode)
Filtered(run, links) ==
    IF IsSome(Val(run.queries).episodeSuffix)
    THEN EpisodeFilter(links, scrapeCall.parsed) ELSE links

\* the streams of the details that came with a magnet
RECURSIVE DetailStreams(_, _)
DetailStreams(topLinks, replies) ==
    IF topLinks = <<>> THEN <<>>
    ELSE LET n == Len(topLinks)
             front == DetailStreams(SubSeq(topLinks, 1, n - 1),
                                    SubSeq(replies, 1, n - 1))
             details == replies[n].value
         IN IF IsSome(details) /\ IsSome(Val(details).magnetURI)
            THEN Append(front, StreamOf(topLinks[n],
                                        SourceOf(scrapeCall.scraper),
                                        Val(Val(details).magnetURI)))
            ELSE front

\* uniqueLinks, sortedLinks, topLinks, the check of the deadline and the
\* detail requests
RequestDetails(run, topLinks) ==
    IF shouldAbort \/ topLinks = <<>> THEN Returns(run, <<>>)
    ELSE [run EXCEPT !.pc = "details", !.topLinks = topLinks,
                     !.replies = [i \in 1..Len(topLinks) |-> Unsettled]]

\* sortedLinks.slice(0, detailLimit) in the 1337x scraper
TopLinks(sortedLinks) ==
    IF scrapeCall.scraper = "x1337x"
    THEN FirstN(sortedLinks, scrapeCall.flareSolverrSessions)
    ELSE sortedLinks

\* from the episode filter to the detail requests
HtmlFinish(run, links) ==
    RequestDetails([run EXCEPT !.links = links,
                               !.filtered = Some(Filtered(run, links))],
                   TopLinks(SortBySeedersDesc(dedupeLinks(
                       Filtered(run, links)))))

\* if (links.length >= limit || shouldAbort(context)) break, or the list of
\* base URLs is at its end
LoopBreaks(url, links) ==
    \/ url > scrapeCall.urls
    \/ Len(links) >= SearchLimit
    \/ shouldAbort

\* mutant: the fallback is decided after the episode filter
ShouldFallback_AfterFilter(run, links) ==
    /\ run.which = "primary"
    /\ Filtered(run, links) = <<>>
    /\ IsQuery(Val(run.queries).fallbackQuery)
    /\ ~shouldAbort

\* links.length === 0 && fallbackQuery && !shouldAbort(context), after the
\* searches with the primary query
ShouldFallback(run, links) ==
    /\ run.which = "primary"
    /\ links = <<>>
    /\ IsQuery(Val(run.queries).fallbackQuery)
    /\ ~shouldAbort

\* the primary query has been searched for
Searched(run, links) ==
    IF run.which = "primary" THEN [run EXCEPT !.primary = Some(links)]
    ELSE run

\* a loop over the base URLs is left: the loop with the fallback query is
\* entered, or the links are filtered
LoopEnds(run, links) ==
    IF ShouldFallback(run, links) /\ ~LoopBreaks(1, links)
    THEN HtmlSearch(Searched(run, links), "fallback", 1, 1, links)
    ELSE HtmlFinish(Searched(run, links), links)

\* the next round of the loop over the base URLs the call is in
NextUrl(run, links) ==
    IF LoopBreaks(run.url + 1, links) THEN LoopEnds(run, links)
    ELSE HtmlSearch(run, run.which, run.url + 1, 1, links)

\* config.apiBayUrls.flatMap((baseUrl) => categories.map(...))
ApiBayTasks ==
    LET categories == IF scrapeCall.type = "movie" THEN MOVIE_CATEGORIES
                      ELSE SERIES_CATEGORIES
    IN [i \in 1..(scrapeCall.urls * Len(categories)) |->
            [url |-> ((i - 1) \div Len(categories)) + 1,
             category |-> categories[((i - 1) % Len(categories)) + 1]]]

\* fetchResultsForQuery(searchQuery) up to its await; both calls follow a
\* check of shouldAbort, so that its own check finds the context live
fetchResultsForQuery(run, which) ==
    [run EXCEPT !.pc = "search", !.which = which,
                !.replies = [i \in 1..Len(ApiBayTasks) |-> Unsettled],
                !.searches = @ \o
                    [i \in 1..Len(ApiBayTasks) |->
                        [which |-> which,
                         text |-> QueryText(Val(run.queries), which),
                         url |-> ApiBayTasks[i].url,
                         at |-> ApiBayTasks[i].category]]]

\* the results of the settled tasks, in task order, capped
RECURSIVE ApiBayResults(_)
ApiBayResults(replies) ==
    IF replies = <<>> THEN <<>>
    ELSE LET front == ApiBayResults(SubSeq(replies, 1, Len(replies) - 1))
             payload == replies[Len(replies)].value
         IN IF Len(front) >= ApiBayResultLimit \/ ~IsSome(payload) THEN front
            ELSE front \o FirstN(Val(payload),
                                 ApiBayResultLimit - Len(front))

\* the streams of the results that carry a magnet
RECURSIVE ResultStreams(_)
ResultStreams(results) ==
    IF results = <<>> THEN <<>>
    ELSE Append(ResultStreams(SubSeq(results, 1, Len(results) - 1)),
                StreamOf(results[Len(results)], "TPB",
                         results[Len(results)].hash))

\* from the episode filter to the return
ApiBayFinish(run, results) ==
    Returns([run EXCEPT !.links = results,
                        !.filtered = Some(Filtered(run, results))],
            ResultStreams(dedupeLinks(Filtered(run, results))))

\* after fetchResultsForQuery has returned
ApiBayAfter(run, results) ==
    IF ShouldFallback(run, results)
    THEN fetchResultsForQuery(Searched(run, results), "fallback")
    ELSE ApiBayFinish(Searched(run, results), results)

\* the scraper is called: the guard before buildQueries
ScrapeBegins ==
    /\ scrape.pc = "start"
    /\ scrape' =
          IF \/ scrapeCall.urls = 0
             \/ /\ scrapeCall.scraper = "x1337x"
                /\ scrapeCall.flareSolverrSessions <= 0
             \/ shouldAbort
          THEN Returns(scrape, <<>>)
          ELSE [scrape EXCEPT !.pc = "queries"]
    /\ UNCHANGED <<scrapeCall, contextAborted, paging, addonVars, idVars,
                   httpVars, searchVars, imdbVars>>

\* await buildQueries(parsed) returns, and the first search is sent
QueriesBuilt(basics) ==
    /\ scrape.pc = "queries"
    /\ LET run == [scrape EXCEPT
                      !.queries = Some(buildQueries(scrapeCall.parsed, basics))]
       IN scrape' =
             IF shouldAbort THEN Returns(run, <<>>)
             ELSE IF scrapeCall.scraper = "tpb"
                  THEN fetchResultsForQuery(run, "primary")
                  ELSE NextUrl(run, <<>>)
    /\ UNCHANGED <<scrapeCall, contextAborted, paging, addonVars, idVars,
                   httpVars, searchVars, imdbVars>>

\* await fetchHtml(search URL) returns: null, or a page of results; a fetch
\* whose signal has fired gives null
SearchAnswers(html) ==
    /\ scrape.pc = "search"
    /\ scrapeCall.scraper \in {"tgx", "x1337x"}
    /\ shouldAbort => html = None
    /\ scrape.page > MaxPages => html \in {None, Some(<<>>)}
    /\ LET batch == IF IsSome(html)
                    THEN FirstN(Val(html), SearchLimit - Len(scrape.links))
                    ELSE <<>>
           links == scrape.links \o batch
       IN scrape' =
             IF /\ scrapeCall.scraper = "tgx"
                /\ batch # <<>>
                /\ Len(links) < SearchLimit
                /\ ~shouldAbort
             THEN HtmlSearch(scrape, scrape.which, scrape.url,
                             scrape.page + 1, links)
             ELSE NextUrl(scrape, links)
    /\ UNCHANGED <<scrapeCall, contextAborted, paging, addonVars, idVars,
                   httpVars, searchVars, imdbVars>>

\* what a detail page may give: nothing, a page without a magnet, the magnet
DetailChoices(link) ==
    {None, Some([magnetURI |-> None]), Some([magnetURI |-> Some(link.hash)])}

\* fetchTorrentDetails(link.url) of the i-th link settles; with the last of
\* them Promise.allSettled resolves and the streams are returned
DetailAnswers(i, details) ==
    /\ scrape.pc = "details"
    /\ i \in 1..Len(scrape.replies)
    /\ ~scrape.replies[i].settled
    /\ details \in DetailChoices(scrape.topLinks[i])
    /\ shouldAbort => details = None
    /\ LET replies == [scrape.replies EXCEPT ![i] = SettledWith(details)]
           run == [scrape EXCEPT !.replies = replies]
       IN scrape' =
             IF AllSettled(replies)
             THEN Returns(run, DetailStreams(scrape.topLinks, replies))
             ELSE run
    /\ UNCHANGED <<scrapeCall, contextAborted, paging, addonVars, idVars,
                   httpVars, searchVars, imdbVars>>

\* fetchJson of the i-th task settles; with the last of them
\* fetchResultsForQuery returns
ApiBayAnswers(i, payload) ==
    /\ scrape.pc = "search"
    /\ scrapeCall.scraper = "tpb"
    /\ i \in 1..Len(scrape.replies)
    /\ ~scrape.replies[i].settled
    /\ shouldAbort => payload = None
    /\ LET replies == [scrape.replies EXCEPT ![i] = SettledWith(payload)]
           run == [scrape EXCEPT !.replies = replies]
       IN scrape' =
             IF AllSettled(replies)
             THEN ApiBayAfter(run, ApiBayResults(replies))
             ELSE run
    /\ UNCHANGED <<scrapeCall, contextAborted, paging, addonVars, idVars,
                   httpVars, searchVars, imdbVars>>

\* the deadline of the request passes: controller.abort()
ContextAborts ==
    /\ scrape.pc \notin {"idle", "done"}
    /\ ~contextAborted
    /\ contextAborted' = TRUE
    /\ UNCHANGED <<scrapeCall, scrape, paging, addonVars, idVars, httpVars,
                   searchVars, imdbVars>>

ScrapeInit ==
    /\ AddonInit
    /\ maxRequestWaitSeconds = Some(1)
    /\ IdIdle
    /\ HttpIdle
    /\ SearchIdle
    /\ ImdbIdle
    /\ scrapeCall \in ScrapeCalls
    /\ contextAborted = FALSE
    /\ scrape = [IdleScrape EXCEPT !.pc = "start"]
    /\ paging = NoPaging

ScrapeNext ==
    \/ ScrapeBegins
    \/ \E basics \in BasicsChoices : QueriesBuilt(basics)
    \/ \E html \in {None} \cup {Some(page) : page \in SearchPages} :
          SearchAnswers(html)
    \/ \E i \in 1..MaxLinks,
          details \in {None} \cup
                      {Some([magnetURI |-> magnet]) :
                          magnet \in {None} \cup
                                     {Some(link.hash) : link \in Catalogue}} :
          DetailAnswers(i, details)
    \/ \E i \in 1..(MaxUrls * Len(MOVIE_CATEGORIES)),
          payload \in {None} \cup {Some(page) : page \in SearchPages} :
          ApiBayAnswers(i, payload)
    \/ ContextAborts

ScrapeSpec == ScrapeInit /\ [][ScrapeNext]_vars

(* ================================================================ claims *)
\* the request in hand missed the cache and its response is built
MissDone == pc = "done" /\ ~cacheHit
RespStreams == Val(response).streams
\* the streams of the fulfilled scrapers, in call order
Collected == FulfilledStreams(ScraperCalls(req.type), scrapers)
FirstIndex(key) ==
    CHOOSE i \in 1..Len(Collected) :
        /\ IdentityKey(Collected[i]) = key
        /\ \A j \in 1..(i - 1) : IdentityKey(Collected[j]) # key
FirstOccurrence(key) == Collected[FirstIndex(key)]
SeedCount(stream) == IF "seeders" \in DOMAIN stream THEN stream.seeders ELSE 0
DeadMagnet(stream) ==
    /\ "seeders" \in DOMAIN stream
    /\ stream.seeders = 0
    /\ \/ "infoHash" \in DOMAIN stream
       \/ "url" \in DOMAIN stream /\ stream.url[1] = "magnet:?"
\* the fulfilled scrapers that returned a stream with this key
ScrapersWith(key) ==
    {s \in Range(ScraperCalls(req.type)) :
        /\ scrapers[s].phase = "fulfilled"
        /\ \E i \in 1..Len(scrapers[s].got) :
              IdentityKey(scrapers[s].got[i]) = key}
SharedKeys ==
    {key \in {IdentityKey(Collected[i]) : i \in 1..Len(Collected)} :
        IsSome(key) /\ Cardinality(ScrapersWith(key)) >= 2}
\* the sources of all occurrences of a key, as a set
AllSources(key) ==
    UNION {Range(Collected[i].sources) :
             i \in {j \in 1..Len(Collected) :
                      /\ IdentityKey(Collected[j]) = key
                      /\ "sources" \in DOMAIN Collected[j]}}
WithKey(key) == {i \in 1..Len(RespStreams) : IdentityKey(RespStreams[i]) = key}
NoRepeats(seq) == \A i, j \in 1..Len(seq) : i # j => seq[i] # seq[j]
FieldsOfText(streamText) == {streamText[j][1] : j \in 1..Len(streamText)}

\* C1: a response built on a cache miss holds no two streams with the same
\* identity key (infoHash ?? url), and no stream without an identity key,
\* whatever the scrapers returned.
C1_UniqueIdentityKeys ==
    MissDone =>
        /\ \A i, j \in 1..Len(RespStreams) :
              i # j => IdentityKey(RespStreams[i]) # IdentityKey(RespStreams[j])
        /\ \A i \in 1..Len(RespStreams) : IsSome(IdentityKey(RespStreams[i]))

\* two scrapers returned the same key and the response holds it once
C1_Witness ==
    /\ MissDone
    /\ Len(Collected) = 2
    /\ IsSome(IdentityKey(Collected[1]))
    /\ IdentityKey(Collected[1]) = IdentityKey(Collected[2])
    /\ Len(RespStreams) = 1

\* C2: no stream of a response, and no stream of a value written to or held
\* by the cache, carries a seeders field.
C2_NoSeedersField ==
    /\ IsSome(response) =>
          \A i \in 1..Len(RespStreams) : "seeders" \notin DOMAIN RespStreams[i]
    /\ IsSome(written) =>
          \A i \in 1..Len(Val(written)) :
              "seeders" \notin FieldsOfText(Val(written)[i])
    /\ \A k \in CacheKeys :
          IsSome(cache[k]) =>
              \A i \in 1..Len(Val(cache[k])) :
                  "seeders" \notin FieldsOfText(Val(cache[k])[i])

\* a ranked stream had a seed count, and its response was written
C2_Witness ==
    /\ MissDone
    /\ IsSome(written)
    /\ \E i \in 1..Len(sortedStreams) : "seeders" \in DOMAIN sortedStreams[i]

\* C3: on a cache miss the streams of the response are in descending order
\* of the seed count their scraper reported (none reported counts as 0), and
\* streams with equal counts keep the order in which they were collected.
C3_StableSeedOrder ==
    MissDone =>
        \A i, j \in 1..Len(RespStreams) :
            i < j =>
                LET ki == IdentityKey(RespStreams[i])
                    kj == IdentityKey(RespStreams[j])
                    si == SeedCount(FirstOccurrence(ki))
                    sj == SeedCount(FirstOccurrence(kj))
                IN \/ si > sj
                   \/ si = sj /\ FirstIndex(ki) < FirstIndex(kj)

\* two streams with the same seed count are both in the response
C3_Witness ==
    /\ MissDone
    /\ Len(RespStreams) = 2
    /\ SeedCount(sortedStreams[1]) = SeedCount(sortedStreams[2])
    /\ SeedCount(sortedStreams[1]) > 0

\* C4: no stream of a response was reported with seeders = 0 while it
\* carries an infoHash or a url that begins with magnet:?.
C4_NoDeadMagnets ==
    MissDone =>
        /\ Len(sortedStreams) = Len(RespStreams)
        /\ \A i \in 1..Len(RespStreams) :
              /\ IdentityKey(sortedStreams[i]) = IdentityKey(RespStreams[i])
              /\ ~DeadMagnet(sortedStreams[i])
              /\ ~DeadMagnet(FirstOccurrence(IdentityKey(RespStreams[i])))

\* a dead magnet url was collected next to a stream that stays
C4_Witness ==
    /\ MissDone
    /\ Len(RespStreams) = 1
    /\ \E i \in 1..Len(Collected) :
          /\ DeadMagnet(Collected[i])
          /\ "url" \in DOMAIN Collected[i]
          /\ IdentityKey(Collected[i]) # IdentityKey(RespStreams[1])

\* C5: a request whose key is in the cache (the request is valid and the
\* cache read answers) is answered with the cached response as it was
\* returned when it was written (same streams, same order); it starts no
\* scraper and no deadline and does not write the cache.
C5_CacheHitReturnsCached ==
    [][ (pc = "idle" /\ pc' \notin {"idle", "failed"}
            /\ IsSome(cache[buildCacheKey(req'.type, req'.parsed)]))
        => LET key == buildCacheKey(req'.type, req'.parsed)
           IN /\ pc' = "done"
              /\ response' = origin[key]
              /\ Val(response') = JSONparse(Val(cache[key]))
              /\ cache' = cache
              /\ written' = None
              /\ scrapers' = IdleScrapers
              /\ signal' = "null"
              /\ supplied' = supplied ]_vars

\* a request has been answered from the cache with a stream
C5_Witness ==
    /\ pc = "done"
    /\ cacheHit
    /\ Len(RespStreams) > 0
    /\ scrapers = IdleScrapers

\* C6: no cache entry ever holds a response with an empty streams list, and
\* a request whose response is empty leaves the cache as it was.
C6_OnlyNonEmptyCached ==
    /\ [](\A k \in CacheKeys : IsSome(cache[k]) => Len(Val(cache[k])) > 0)
    /\ [][ (pc = "scraping" /\ pc' = "done" /\ Len(Val(response').streams) = 0)
           => (cache' = cache /\ written' = None) ]_vars

\* scrapers returned streams, none survived, and nothing was written
C6_Witness ==
    /\ MissDone
    /\ Len(Collected) > 0
    /\ Len(RespStreams) = 0
    /\ written = None

\* C7 (as claimed): when the deadline fires before any scraper has
\* completed, the response is {streams: []} and the cache is not written.
C7_EmptyWhenDeadlineBeforeAnyScraper ==
    (pc = "done" /\ signal = "aborted" /\ settledAtAbort = {}) =>
        (Len(RespStreams) = 0 /\ written = None)

\* C8 (as claimed): with the deadline configured as 0 every response is
\* {streams: []} and the cache stays empty.
C8_ZeroDeadlineEmpty ==
    maxRequestWaitSeconds = Some(0) =>
        /\ pc = "done" => Len(RespStreams) = 0
        /\ \A k \in CacheKeys : cache[k] = None

\* C8 (amended): with the deadline configured as 0 no deadline is armed:
\* the signal is null and never fires, and a cache miss returns, and caches
\* when there are any, the ranked streams of all its scrapers.
C8_ZeroDeadlineDisarmed ==
    maxRequestWaitSeconds = Some(0) =>
        /\ signal = "null"
        /\ settledAtAbort = {}
        /\ MissDone =>
              /\ Len(RespStreams) = Len(sortedStreams)
              /\ IsSome(written) <=> Len(RespStreams) > 0
              /\ \A s \in Active : Settled(s)

\* deadline 0, and a scraped stream was returned and cached
C8_Witness ==
    /\ maxRequestWaitSeconds = Some(0)
    /\ MissDone
    /\ Len(RespStreams) > 0
    /\ IsSome(written)

\* C9 (as claimed): the response of a request whose deadline fired before
\* its scrapers had all settled is never written to the cache.
C9_NoCacheWriteAfterDeadline ==
    (pc = "done" /\ signal = "aborted") => written = None

C11_SeededNeverDisplaced ==
    MissDone =>
        \A i \in 1..Len(Collected) :
            (IsSome(IdentityKey(Collected[i])) /\ SeedCount(Collected[i]) > 0)
                => WithKey(IdentityKey(Collected[i])) # {}

\* the segment of a binge group between "barestreams" and the quality
BingeSlug(bingeGroup) == SubSeq(bingeGroup, 2, Len(bingeGroup) - 1)
BingeQualities == {"2160p", "1080p", "720p", "480p", "unknown"}
EpisodeRequest ==
    /\ req.type = "series"
    /\ "season" \in DOMAIN req.parsed
    /\ "episode" \in DOMAIN req.parsed

\* C12: on a series request with season and episode every stream of the
\* response carries behaviorHints.bingeGroup = barestreams-<source slug>-
\* <quality>, the slug in lower case and the quality one of 2160p, 1080p,
\* 720p, 480p, unknown; on any other request the behaviorHints of a stream
\* are those its scraper gave it (no bingeGroup is attached).
C12_BingeGroupOnEpisodes ==
    MissDone =>
        \A i \in 1..Len(RespStreams) :
            LET out == RespStreams[i]
                first == FirstOccurrence(IdentityKey(out))
            IN IF EpisodeRequest
               THEN /\ "behaviorHints" \in DOMAIN out
                    /\ "bingeGroup" \in DOMAIN out.behaviorHints
                    /\ LET bingeGroup == out.behaviorHints.bingeGroup
                       IN /\ Len(bingeGroup) >= 3
                          /\ bingeGroup[1] = "barestreams"
                          /\ bingeGroup[Len(bingeGroup)] \in BingeQualities
                          /\ \A j \in 1..Len(BingeSlug(bingeGroup)) :
                                ToLower(BingeSlug(bingeGroup)[j])
                                    = BingeSlug(bingeGroup)[j]
               ELSE Get(out, "behaviorHints") = Get(first, "behaviorHints")

\* an episode request returned a stream of unknown quality and one whose
\* upper-case quality token was recognised
C12_Witness ==
    /\ MissDone
    /\ EpisodeRequest
    /\ Len(RespStreams) = 2
    /\ \E i, j \in 1..2 :
          /\ RespStreams[i].behaviorHints.bingeGroup
                = <<"barestreams", "tpb", "unknown">>
          /\ RespStreams[j].behaviorHints.bingeGroup
                = <<"barestreams", "yts", "1080p">>

\* the handler's arguments are not a valid request
InvalidArgs(a) == a.type \notin {"movie", "series"} \/ ~parseStremioId(a.id).ok

\* C13: handleStream with a type other than movie and series, or with an id
\* the id parser rejects, throws a BadRequestError and reads no cache,
\* writes no cache, looks up no title and starts no scraper; the front-end
\* answers a BadRequestError with 400, any other exception with 500 and a
\* result with 200.
C13_InvalidRequestRejected ==
    /\ [][ (pc = "idle" /\ pc' # "idle" /\ InvalidArgs(args'))
           => /\ pc' = "failed"
              /\ IsSome(error')
              /\ Val(error').name = "BadRequestError"
              /\ UNCHANGED <<cache, origin, written, response, cacheHit,
                             titleRequested, scrapers, started, signal,
                             settledAtAbort, streams, sortedStreams, supplied,
                             req, client, maxRequestWaitSeconds>> ]_vars
    /\ [][ (pc \in {"done", "failed"} /\ pc' = "idle")
           => status' = (IF pc = "done" THEN 200
                         ELSE IF Val(error).name = "BadRequestError" THEN 400
                         ELSE 500) ]_vars

\* a request with a served type and a two-segment id has been rejected
\* while the cache holds the response of an earlier request
C13_Witness ==
    /\ pc = "failed"
    /\ args.type = "series"
    /\ error = Some(BadRequestError("Invalid id segment count"))
    /\ \E k \in CacheKeys : IsSome(cache[k])

\* the segments of the form tt<digits>, and those that denote a positive
\* integer, with the integer they denote
TtDigits == {"tt1"}
PositiveIntegers == {"1", "2", "01", "1.0", " 1"}
IntegerOf(tok) == IF tok = "2" THEN 2 ELSE 1
\* the reason an id is rejected for, "none" for an id that is accepted
ExpectedReason(id) ==
    IF Len(id) \notin {1, 3} THEN "Invalid id segment count"
    ELSE IF id[1] \notin TtDigits THEN "Invalid base id"
    ELSE IF Len(id) = 3 /\ id[2] \notin PositiveIntegers THEN "Invalid season"
    ELSE IF Len(id) = 3 /\ id[3] \notin PositiveIntegers THEN "Invalid episode"
    ELSE "none"

FormatId(value) ==
    IF "season" \in DOMAIN value
    THEN <<value.baseId, NumStr(value.season), NumStr(value.episode)>>
    ELSE <<value.baseId>>

\* C15 (as claimed): for every id that parseStremioId accepts, formatting
\* the parsed value as baseId or baseId:season:episode gives the id back.
C15_IdRoundTrip ==
    (IsSome(idResult) /\ Val(idResult).ok)
        => FormatId(Val(idResult).value) = idInput

\* the identity keys the response has to hold: those of the streams of the
\* fulfilled scrapers whose first occurrence is not a zero-seeder magnet
LiveKeys ==
    {IdentityKey(Collected[i]) :
        i \in {j \in 1..Len(Collected) :
                 /\ IsSome(IdentityKey(Collected[j]))
                 /\ ~DeadMagnet(FirstOccurrence(IdentityKey(Collected[j])))}}

\* C16: whichever scrapers of a request reject or return nothing, the
\* handler does not fail for it (after the fan-out it fails for nothing but
\* a cache error), and its response holds the streams of the scrapers that
\* fulfilled and no others.
C16_ScraperFailuresIsolated ==
    /\ (pc = "failed" /\ started # <<>>) => error = Some(RedisError)
    /\ MissDone =>
          {IdentityKey(RespStreams[i]) : i \in 1..Len(RespStreams)} = LiveKeys

\* a scraper rejected, one returned nothing, and the response holds the
\* stream of a third
C16_Witness ==
    /\ MissDone
    /\ \E s \in Active : scrapers[s].phase = "rejected"
    /\ \E s \in Active :
          scrapers[s].phase = "fulfilled" /\ scrapers[s].got = <<>>
    /\ Len(RespStreams) = 1

\* C17 (as claimed): the handler never fails for a cache failure: whatever
\* the cache get and the cache set do, a request that fails is a bad request.
C17_CacheFailuresAbsorbed ==
    pc = "failed" => Val(error).name = "BadRequestError"

\* the calls a request of a type has to make, in order
ExpectedCalls(type) ==
    IF type = "movie"
    THEN << [scraper |-> "yts", category |-> None],
            [scraper |-> "tgx", category |-> None],
            [scraper |-> "tpb", category |-> Some("movie")],
            [scraper |-> "x1337x", category |-> None] >>
    ELSE << [scraper |-> "eztv", category |-> None],
            [scraper |-> "tgx", category |-> None],
            [scraper |-> "tpb", category |-> Some("series")],
            [scraper |-> "x1337x", category |-> None] >>
\* the streams of the i-th call, none if it rejected
ResultOf(type, i) ==
    LET result == scrapers[ExpectedCalls(type)[i].scraper]
    IN IF result.phase = "fulfilled" THEN result.got ELSE <<>>

\* C18: on a cache miss a movie request starts YTS, TorrentGalaxy,
\* ApiBay(movie) and 1337x, a series request EZTV, TorrentGalaxy,
\* ApiBay(series) and 1337x: each once, all in the same step (running
\* together) and with the same scrape context; the merge runs only when all
\* four have settled and takes their results in that call order.
C18_FanOut ==
    /\ [][ (pc = "idle" /\ pc' = "scraping")
           => /\ Len(started') = 4
              /\ \A i \in 1..4 :
                    /\ started'[i].scraper
                          = ExpectedCalls(args'.type)[i].scraper
                    /\ started'[i].category
                          = ExpectedCalls(args'.type)[i].category
                    /\ started'[i].context = started'[1].context
                    /\ scrapers'[started'[i].scraper]
                          = [phase |-> "running", got |-> <<>>]
              /\ \A s \in ScraperKeys :
                    (\A i \in 1..4 : ExpectedCalls(args'.type)[i].scraper # s)
                        => scrapers'[s].phase = "idle" ]_vars
    /\ [][ (pc = "scraping" /\ pc' \in {"done", "failed"})
           => /\ \A i \in 1..4 :
                    scrapers[ExpectedCalls(req.type)[i].scraper].phase
                        \in {"fulfilled", "rejected"}
              /\ pc' = "done" =>
                    streams' = DedupeStreams(<<>>,
                                  ResultOf(req.type, 1) \o ResultOf(req.type, 2)
                                  \o ResultOf(req.type, 3)
                                  \o ResultOf(req.type, 4)) ]_vars

\* a series request was merged after EZTV and 1337x had both returned a
\* stream
C18_Witness ==
    /\ MissDone
    /\ req.type = "series"
    /\ scrapers["eztv"].got # <<>>
    /\ scrapers["x1337x"].got # <<>>
    /\ Len(streams) = 1

(* ---------------------------------------------------------------- C19 *)

\* C19: the bypass mode of a pool is monotone: a pool that is force-bypass
\* (useAlways) is still there and still force-bypass after every step, be
\* it a request, a bypass call that failed, a step of a refresh pass or a
\* second call of the initialisation.
C19_BypassMonotone ==
    [][\A key \in DOMAIN flareSolverrPools :
          flareSolverrPools[key].useAlways =>
             /\ key \in DOMAIN flareSolverrPools'
             /\ flareSolverrPools'[key].useAlways]_vars

\* a force-bypass pool after a second call of the initialisation, a call
\* that came back with nothing and a refresh pass that has ended
C19_Witness ==
    /\ inits >= 2
    /\ ticks >= 1
    /\ passes = <<>>
    /\ \E i \in 1..Len(tasks) :
          /\ tasks[i].kind = "call"
          /\ tasks[i].pc = "done"
          /\ tasks[i].result = None
    /\ \E key \in DOMAIN flareSolverrPools :
          /\ flareSolverrPools[key].useAlways
          /\ ~flareSolverrPools[key].refreshInFlight

(* ---------------------------------------------------------------- C20 *)

\* the passes in flight for a pool
PassesOf(key) == {p \in 1..Len(passes) : passes[p].scraper = key}

\* the requests the last step sent for a pool
SentFor(key) == {i \in 1..Len(sent) : sent[i].scraper = key}

\* C20: at most one refresh pass runs per pool, and the in-flight flag of a
\* pool is set exactly while its pass runs (it is cleared when the pass
\* ends); a tick that arrives while a pass of the pool is in flight, or for
\* a pool that is not force-bypass or has no sessions, sends no request for
\* that pool and starts no pass; a tick for a force-bypass pool with
\* sessions and no pass in flight starts one.
C20_OneRefreshPerPool ==
    /\ [](\A key \in DOMAIN flareSolverrPools :
             /\ Cardinality(PassesOf(key)) <= 1
             /\ flareSolverrPools[key].refreshInFlight <=> PassesOf(key) # {})
    /\ [][ticks' = ticks + 1 =>
             \A key \in DOMAIN flareSolverrPools :
                IF \/ PassesOf(key) # {}
                   \/ ~flareSolverrPools[key].useAlways
                   \/ Len(flareSolverrPools[key].sessions) = 0
                THEN /\ SentFor(key)' = {}
                     /\ passes' = passes
                     /\ flareSolverrPools'[key] = flareSolverrPools[key]
                ELSE /\ PassesOf(key)' # {}
                     /\ flareSolverrPools'[key].refreshInFlight]_vars

\* the second tick has just arrived while the pass the first tick started
\* is in flight (after the initialisation, with no call made, only a tick
\* sends nothing and leaves a pass in flight)
C20_Witness ==
    /\ inits = 1
    /\ NumCalls = 0
    /\ ticks = 2
    /\ sent = <<>>
    /\ passes # <<>>
    /\ flareSolverrPools[passes[1].scraper].refreshInFlight

(* ---------------------------------------------------------------- C22 *)

\* the step starts a call that goes on (its signal is not aborted)
CallStarts ==
    /\ Len(tasks') = Len(tasks) + 1
    /\ tasks'[Len(tasks')].kind = "call"
    /\ tasks'[Len(tasks')].pc # "done"

\* the one request a step sends through the bypass service for a page
OnlyBypassRequest(requests, key, session) ==
    requests = <<RequestGet(key, "page", session)>>

Answered(i, statuses) ==
    /\ IsSome(received')
    /\ Val(received').task = i
    /\ Val(received').status \in statuses

\* the warm-up requests for every session a pool holds
WarmUps(key, pool) ==
    [n \in 1..Len(pool.sessions) |->
        RequestGet(key, "warmup", Some(pool.sessions[n]))]

\* the sessions.create requests for every session a pool is to hold
Creates(key, pool) ==
    [n \in 1..pool.sessionCount |-> SessionsCreate(key, SessionId(key, n))]

\* the steps of a promotion by task i after its 401 or 403 (a probe, or a
\* call on a plain pool): the sessions are created when the pool holds none,
\* then warmed, then one request goes through the bypass service, then the
\* task ends
PromotionSteps(i) ==
    LET key == tasks[i].scraper
        before == flareSolverrPools[key]
        after == flareSolverrPools'[key]
    IN /\ (tasks[i].pc = "direct" /\ Answered(i, {"401", "403"})
           /\ (tasks[i].kind = "probe" \/ ~before.useAlways)) =>
             /\ after.useAlways
             /\ IF before.sessionCount > 0 /\ Len(before.sessions) = 0
                THEN /\ tasks'[i].pc = "creating"
                     /\ sent' = Creates(key, before)
                ELSE IF Len(before.sessions) > 0
                THEN /\ tasks'[i].pc = "warming"
                     /\ sent' = WarmUps(key, before)
                ELSE /\ tasks'[i].pc = "bypass"
                     /\ OnlyBypassRequest(sent', key, None)
       /\ (tasks[i].pc = "creating" /\ tasks'[i] # tasks[i]) =>
             IF Len(after.sessions) > 0
             THEN /\ tasks'[i].pc = "warming"
                  /\ sent' = WarmUps(key, after)
             ELSE /\ tasks'[i].pc = "bypass"
                  /\ OnlyBypassRequest(sent', key, None)
       /\ (tasks[i].pc = "warming" /\ tasks'[i] # tasks[i]) =>
             /\ tasks'[i].pc = "bypass"
             /\ Len(sent') = 1
             /\ sent'[1].cmd = "request.get"
             /\ sent'[1].url = "page"
       /\ (tasks[i].pc = "bypass" /\ tasks'[i] # tasks[i]) =>
             /\ tasks'[i].pc = "done"
             /\ sent' = <<>>

C24_OtherFailureReturnsNil ==
    [][\A i \in 1..Len(tasks) :
          (tasks[i].kind = "call" /\ tasks[i].pc = "direct"
           /\ Answered(i, DirectOutcomes \ {"200", "401", "403"})) =>
             /\ tasks'[i].pc = "done"
             /\ tasks'[i].result = None
             /\ sent' = <<>>
             /\ flareSolverrPools' = flareSolverrPools]_vars

\* a call that was on the standard path when its pool became force-bypass
\* has just failed with a 500: the pool keeps its mode and its sessions
C24_Witness ==
    /\ IsSome(received)
    /\ Val(received).status = "500"
    /\ tasks[Val(received).task].kind = "call"
    /\ tasks[Val(received).task].result = None
    /\ IsSome(flareSolverrUrl)
    /\ flareSolverrPools[tasks[Val(received).task].scraper].useAlways
    /\ Len(flareSolverrPools[tasks[Val(received).task].scraper].sessions) > 0

(* ---------------------------------------------------------------- C25 *)

\* C25: the front-page probe of a pool makes the pool force-bypass when its
\* response has status 401 or 403, and then (after creating the sessions
\* when the pool holds none) warms each session the pool holds before its
\* request through the bypass service; a probe that gets a 2xx, another
\* status or no response ends with every pool as it was and no request
\* sent.
C25_ProbeMarks ==
    [][\A i \in 1..Len(tasks) :
          tasks[i].kind = "probe" =>
             /\ PromotionSteps(i)
             /\ (tasks[i].pc = "direct"
                 /\ Answered(i, DirectOutcomes \ {"401", "403"})) =>
                   /\ tasks'[i].pc = "done"
                   /\ sent' = <<>>
                   /\ flareSolverrPools' = flareSolverrPools]_vars

\* a probe that got a 401 or 403 has had the sessions created and is
\* warming them
C25_Witness ==
    \E i \in 1..Len(tasks) :
       /\ tasks[i].kind = "probe"
       /\ tasks[i].pc = "warming"
       /\ flareSolverrPools[tasks[i].scraper].useAlways
       /\ Len(sent) >= 1
       /\ sent = WarmUps(tasks[i].scraper, flareSolverrPools[tasks[i].scraper])

(* ---------------------------------------------------------------- C26 *)

\* C26: when initFlareSolverrSessions has resolved, with a bypass service
\* configured and N > 0 sessions asked for, the pool of every enabled
\* scraper holds its N sessions, whatever its probe returned.
C26_SessionsAtInit ==
    (initPc = "done" /\ IsSome(flareSolverrUrl)
     /\ config.flareSolverrSessions > 0) =>
       \A key \in EnabledScrapers :
          /\ key \in DOMAIN flareSolverrPools
          /\ Len(flareSolverrPools[key].sessions) =
                flareSolverrPools[key].sessionCount

(* ---------------------------------------------------------------- C27 *)

\* C27: the session list of a pool never holds more than sessionCount
\* entries and never holds the same session id twice.
C27_SessionsCreatedOnce ==
    \A key \in DOMAIN flareSolverrPools :
       LET pool == flareSolverrPools[key]
       IN /\ Len(pool.sessions) <= pool.sessionCount
          /\ \A m, n \in 1..Len(pool.sessions) :
                pool.sessions[m] = pool.sessions[n] => m = n

(* ---------------------------------------------------------------- C28 *)

\* what a pass does after the session at its index: the warm-up of the next
\* session in the list, or the end of the pass with nothing sent
PassGoesOn(pass, pool) ==
    IF pass.index + 1 < Len(pool.sessions)
    THEN /\ passes' = <<[scraper |-> pass.scraper, index |-> pass.index + 1,
                         step |-> "warm",
                         session |-> pool.sessions[pass.index + 2]]>>
         /\ sent' = <<RequestGet(pass.scraper, "warmup",
                                 Some(pool.sessions[pass.index + 2]))>>
    ELSE /\ passes' = <<>>
         /\ sent' = <<>>

EpisodeRequested == Truthy(scrapeCall.parsed, "season")
                    /\ Truthy(scrapeCall.parsed, "episode")

\* the name reads as the episode of the request
ReadsAsRequested(name) ==
    parseEpisodeFromText(name)
        = Some([season |-> scrapeCall.parsed.season,
                episode |-> scrapeCall.parsed.episode])

\* the streams the call has returned
ScrapedStreams == IF IsSome(scrape.result) THEN Val(scrape.result).streams ELSE <<>>

C29_AbortedReturnsEmpty ==
    (scrape.pc = "done" /\ contextAborted) => ScrapedStreams = <<>>

(* ---------------------------------------------------------------- C30 *)
\* searches with the fallback query have been requested
FallbackRequested(run) ==
    \E n \in 1..Len(run.searches) : run.searches[n].which = "fallback"

\* the step in which the searches with the primary query come to their end
PrimaryReturns == ~IsSome(scrape.primary) /\ IsSome(scrape'.primary)

\* at the end of the primary search the fallback search is requested
\* exactly when that search found nothing, there is a fallback query in the
\* sense of Exists and the context is not aborted
FallbackDecided(Exists(_)) ==
    PrimaryReturns =>
        (FallbackRequested(scrape')
            <=> /\ Val(scrape'.primary) = <<>>
                /\ Exists(Val(scrape'.queries).fallbackQuery)
                /\ ~contextAborted)

\* the first fallback search is requested at the end of the primary search
FallbackOnlyThen ==
    (FallbackRequested(scrape') /\ ~FallbackRequested(scrape))
        => PrimaryReturns

\* fallback searches ask for the fallback query, and there is none after a
\* primary search that found a candidate, whatever the episode filter
\* keeps of them
FallbackAfterNothing ==
    FallbackRequested(scrape) =>
        /\ IsSome(scrape.primary) /\ Val(scrape.primary) = <<>>
        /\ \A n \in 1..Len(scrape.searches) :
              scrape.searches[n].which = "fallback" =>
                 scrape.searches[n].text
                    = Val(Val(scrape.queries).fallbackQuery)

\* C30, as stated: in the TorrentGalaxy, 1337x and ApiBay scrapers the
\* fallback search is executed if and only if the primary search returned no
\* candidate, buildQueries gave a fallbackQuery (it is not null) and the
\* context is not aborted; after a primary search that returned a candidate
\* it is never requested.
C30_FallbackIffExists ==
    /\ [][FallbackDecided(IsSome) /\ FallbackOnlyThen]_vars
    /\ []FallbackAfterNothing

\* C30, amended: the same with a fallbackQuery that is not null and not the
\* empty string.
C30_FallbackIffNonEmpty ==
    /\ [][FallbackDecided(IsQuery) /\ FallbackOnlyThen]_vars
    /\ []FallbackAfterNothing

\* the primary search found nothing, the fallback search was made and the
\* call has returned a stream of it
C30_Witness ==
    /\ scrape.pc = "done"
    /\ FallbackRequested(scrape)
    /\ Val(scrape.primary) = <<>>
    /\ ScrapedStreams # <<>>

(* ---------------------------------------------------------------- C40 *)
\* C40: in every state a pool that holds a session is force-bypass, and the
\* sessions of a pool are being created only when it has been marked; a
\* plain pool has no session, no refresh pass starts or runs for it and its
\* warm-up sends nothing.
C40_SessionsImplyForced ==
    \A key \in DOMAIN flareSolverrPools :
        LET pool == flareSolverrPools[key]
        IN /\ Len(pool.sessions) > 0 => pool.useAlways
           /\ \A i \in 1..Len(tasks) :
                 (tasks[i].scraper = key /\ tasks[i].pc = "creating")
                     => pool.useAlways
           /\ ~pool.useAlways =>
                 /\ pool.sessions = <<>>
                 /\ ~ShouldRefresh(pool)
                 /\ ~pool.refreshInFlight
                 /\ \A p \in 1..Len(passes) : passes[p].scraper # key
                 /\ WarmThenBypass(key, pool).pc # "warming"

\* the sessions of a pool have been created: it holds one and is marked
C40_Witness ==
    \E key \in DOMAIN flareSolverrPools :
        /\ Len(flareSolverrPools[key].sessions) > 0
        /\ flareSolverrPools[key].useAlways

(* ---------------------------------------------------------------- C36 *)
\* the sessions that round-robin routing hands out in this state: those of
\* the requests for a page through the bypass service
HandedOut ==
    {Val(sent[k].session) : k \in {j \in 1..Len(sent) :
        /\ sent[j].cmd = "request.get"
        /\ sent[j].url = "page"
        /\ IsSome(sent[j].session)}}

\* the sessions a refresh pass has destroyed and is creating again
BeingRecreated ==
    {passes[p].session : p \in {q \in 1..Len(passes) :
                                   passes[q].step = "create"}}

\* a step of a refresh pass keeps the number of sessions of every pool, and
\* a slot it overwrites holds a session that is live
PassKeepsSessions ==
    passes' # passes =>
        \A key \in DOMAIN flareSolverrPools :
            LET before == flareSolverrPools[key].sessions
                after == flareSolverrPools'[key].sessions
            IN /\ Len(after) = Len(before)
               /\ \A k \in 1..Len(before) :
                     after[k] # before[k] => after[k] \in live'

\* C36: a refresh pass never changes the number of sessions of a pool and
\* overwrites a slot only with a re-created session, and every session that
\* round-robin routing hands out is live on the bypass service, unless a
\* pass is creating it again at that moment.
C36_RotationIsLive ==
    /\ [][PassKeepsSessions]_vars
    /\ [](HandedOut \subseteq live \cup BeingRecreated)

(* ---------------------------------------------------------------- C31 *)
\* a call made with a signal that is aborted already returns null, sends
\* nothing and leaves the pools as they are
AbortedCallSendsNothing ==
    (Len(tasks') = Len(tasks) + 1 /\ Len(tasks') \in fired') =>
        /\ tasks'[Len(tasks')].pc = "done"
        /\ tasks'[Len(tasks')].result = None
        /\ sent' = <<>>
        /\ flareSolverrPools' = flareSolverrPools

\* a call whose signal has fired starts no request when it goes on
FiredCallSendsNothing ==
    \A i \in fired \cap (1..Len(tasks)) :
        tasks'[i] # tasks[i] => sent' = <<>>

\* C31: a fetchText call whose signal is aborted already returns null without
\* a request, direct or through the bypass service, and without a change of
\* the pools; and once the signal of a call has fired the call starts no new
\* outbound request.
C31_CancellationReaches ==
    [][AbortedCallSendsNothing /\ FiredCallSendsNothing]_vars

(* ---------------------------------------------------------------- C35 *)
\* the requests the handler accepts that get the cache key of the request in
\* hand: [type, parsed]
SharingKey ==
    {[type |-> type, parsed |-> parseStremioId(id).value] :
        <<type, id>> \in {ti \in Types \X RequestIds :
            /\ parseStremioId(ti[2]).ok
            /\ buildCacheKey(ti[1], parseStremioId(ti[2]).value) =
                  buildCacheKey(req.type, req.parsed)}}

\* C35: every request that gets the cache key of the request in hand has its
\* type, its baseId, its season and its episode, and so its scrape queries
\* whatever the title lookup answers.
C35_SharedKeyEquivalent ==
    req # NoRequest =>
        \A other \in SharingKey :
            /\ other.type = req.type
            /\ other.parsed = req.parsed
            /\ \A basics \in BasicsChoices :
                  buildQueries(other.parsed, basics) =
                      buildQueries(req.parsed, basics)

(* ---------------------------------------------------------------- C34 *)
\* the handler has returned a response or thrown
Completed == pc \in {"done", "failed"}

\* C34: when every call the handler awaits returns in the end, a request
\* that has started its scrapers is completed in the end, with a response or
\* an error; and once the deadline has fired every scraper started settles
\* and the request is completed.
C34_RequestCompletes ==
    /\ (pc = "scraping") ~> Completed
    /\ Aborted ~> ((\A s \in Active : Settled(s)) /\ Completed)

\* a request is completed after its deadline fired while a scraper was in
\* flight
C34_Witness ==
    /\ pc = "done"
    /\ Aborted
    /\ IsSome(response)
    /\ settledAtAbort # Active

(* ----------------------------------------------- the IMDb title index *)
(* imdb/index.ts: a TSV file as the sequence of its bytes, offsets counted  *)
(* from 0 as the code counts them.                                          *)

MathMax(a, b) == IF a >= b THEN a ELSE b
MathMin(a, b) == IF a <= b THEN a ELSE b

\* the code unit of a character, for the < of strings
CodeUnit(ch) ==
    CASE ch = "\t" -> 9
      [] ch = "\n" -> 10
      [] ch = "a" -> 97
      [] ch = "b" -> 98
      [] ch = "t" -> 116
      [] ch = "x" -> 120

\* a < b on strings: code unit by code unit, a proper prefix is less
RECURSIVE StringLess(_, _)
StringLess(a, b) ==
    IF b = <<>> THEN FALSE
    ELSE IF a = <<>> THEN TRUE
    ELSE IF Head(a) # Head(b) THEN CodeUnit(Head(a)) < CodeUnit(Head(b))
    ELSE StringLess(Tail(a), Tail(b))

\* the header row, and the tconst values in lexicographic order
HeaderRow == <<"t", "\t", "x">>
SortedKeys == << <<"a">>, <<"a", "a">>, <<"a", "b">>, <<"b">> >>

\* a data line of a key: the key alone, or with further columns
LinesOf(key) == {key, key \o <<"\t", "x">>, key \o <<"\t", "x", "x", "x">>}

\* the i-th least member of a set of numbers
RECURSIVE Nth(_, _)
Nth(S, i) ==
    LET least == CHOOSE n \in S : \A m \in S : n <= m
    IN IF i = 1 THEN least ELSE Nth(S \ {least}, i - 1)

\* the data regions followed: up to MaxLines non-empty lines, sorted by key
DataRows ==
    UNION { {rows \in [1..Cardinality(S) -> UNION {LinesOf(SortedKeys[k]) :
                                                     k \in S}] :
                \A i \in 1..Cardinality(S) :
                    rows[i] \in LinesOf(SortedKeys[Nth(S, i)])} :
            S \in {T \in SUBSET (1..Len(SortedKeys)) :
                      Cardinality(T) <= MaxLines} }

\* the bytes of the file: the header, the rows, each line ended by a newline
\* but, when trailing is FALSE, the last
RECURSIVE JoinRows(_)
JoinRows(rows) ==
    IF rows = <<>> THEN <<>>
    ELSE <<"\n">> \o Head(rows) \o JoinRows(Tail(rows))

Tsv(rows, trailing) ==
    HeaderRow \o JoinRows(rows) \o (IF trailing THEN <<"\n">> ELSE <<>>)

TsvFiles == {Tsv(rows, trailing) : rows \in DataRows, trailing \in BOOLEAN}

\* handle.read(buffer, 0, length, position): the bytes read
BytesRead(file, length, position) ==
    MathMax(0, MathMin(length, Len(file) - position))

\* the places of the newlines among the bytes read from position
Newlines(file, position, bytesRead) ==
    {i \in 0..(bytesRead - 1) : file[position + i + 1] = "\n"}

\* findLineStart, from the cursor of its loop
RECURSIVE findLineStart(_, _)
findLineStart(file, cursor) ==
    IF cursor <= 0 THEN 0
    ELSE LET readStart == MathMax(0, cursor - BUFFER_SIZE)
             bytesRead == BytesRead(file, cursor - readStart, readStart)
             found == Newlines(file, readStart, bytesRead)
         IN IF bytesRead = 0 THEN 0
            ELSE IF found # {}
            THEN readStart + (CHOOSE i \in found : \A j \in found : j <= i) + 1
            ELSE findLineStart(file, readStart)

\* readLineForward, from the cursor of its loop, the chunks read so far
RECURSIVE readLineForward(_, _, _, _)
readLineForward(file, cursor, fileSize, chunks) ==
    IF cursor >= fileSize THEN [line |-> chunks, end |-> cursor]
    ELSE LET bytesRead == BytesRead(file, BUFFER_SIZE, cursor)
             found == Newlines(file, cursor, bytesRead)
         IN IF bytesRead = 0 THEN [line |-> chunks, end |-> cursor]
            ELSE IF found # {}
            THEN LET newlineIndex == CHOOSE i \in found : \A j \in found : i <= j
                 IN [line |-> chunks \o SubSeq(file, cursor + 1,
                                               cursor + newlineIndex),
                     end |-> cursor + newlineIndex]
            ELSE readLineForward(file, cursor + bytesRead, fileSize,
                    chunks \o SubSeq(file, cursor + 1, cursor + bytesRead))

readLineAtOffset(file, offset, fileSize) ==
    LET boundedOffset == MathMax(0, MathMin(offset, fileSize))
        start == findLineStart(file, boundedOffset)
        read == readLineForward(file, start, fileSize, <<>>)
    IN [line |-> read.line, start |-> start, end |-> read.end]

\* line.slice(0, tabIndex), or the line when it has no tab
FirstColumn(line) ==
    LET tabs == {i \in 1..Len(line) : line[i] = "\t"}
    IN IF tabs = {} THEN line
       ELSE SubSeq(line, 1, (CHOOSE i \in tabs : \A j \in tabs : i <= j) - 1)

\* findLineByTconst up to its loop: the file is open, the header is read
OpenSearch(file) ==
    LET size == Len(file)
        header == readLineAtOffset(file, 0, size)
        dataStart == MathMin(header.end + 1, size)
    IN [pc |-> "loop", dataStart |-> dataStart, low |-> dataStart,
        high |-> size - 1, result |-> None]

\* mutant: the interval keeps the line that was read
SearchStep_KeepsLine(file, tconst, at) ==
    IF ~(at.low <= at.high) THEN [at EXCEPT !.pc = "done"]
    ELSE LET mid == (at.low + at.high) \div 2
             read == readLineAtOffset(file, mid, Len(file))
             key == FirstColumn(read.line)
         IN IF read.line = <<>> THEN [at EXCEPT !.pc = "done"]
            ELSE IF read.start < at.dataStart
            THEN [at EXCEPT !.low = at.dataStart]
            ELSE IF key = tconst
            THEN [at EXCEPT !.pc = "done", !.result = Some(read.line)]
            ELSE IF StringLess(key, tconst)
            THEN [at EXCEPT !.low = read.end + 1]
            ELSE [at EXCEPT !.high = read.start]

\* one turn of the loop of findLineByTconst, its test included
SearchStep(file, tconst, at) ==
    IF ~(at.low <= at.high) THEN [at EXCEPT !.pc = "done"]
    ELSE LET mid == (at.low + at.high) \div 2
             read == readLineAtOffset(file, mid, Len(file))
             key == FirstColumn(read.line)
         IN IF read.line = <<>> THEN [at EXCEPT !.pc = "done"]
            ELSE IF read.start < at.dataStart
            THEN [at EXCEPT !.low = at.dataStart]
            ELSE IF key = tconst
            THEN [at EXCEPT !.pc = "done", !.result = Some(read.line)]
            ELSE IF StringLess(key, tconst)
            THEN [at EXCEPT !.low = read.end + 1]
            ELSE [at EXCEPT !.high = read.start - 1]

(* ------------------------------------------------ a search on its own *)
\* the tconst values looked for: the keys, and the first column of the header
SearchKeys == Range(SortedKeys) \cup {FirstColumn(HeaderRow)}

SearchInit ==
    /\ AddonInit
    /\ maxRequestWaitSeconds = Some(0)
    /\ IdIdle
    /\ HttpIdle
    /\ ScrapeIdle
    /\ ImdbIdle
    /\ searchFile \in TsvFiles
    /\ searchKey \in SearchKeys
    /\ search = NoSearch
    /\ turns = 0

\* open(filePath), handle.stat() and the read of the header row
SearchOpens ==
    /\ search.pc = "closed"
    /\ search' = OpenSearch(searchFile)
    /\ UNCHANGED <<searchFile, searchKey, turns>>
    /\ UNCHANGED <<addonVars, idVars, httpVars, scrapeVars, imdbVars>>

\* one turn of the loop; an interval of n bytes is followed for n turns
SearchTurns ==
    /\ search.pc = "loop"
    /\ turns <= Len(searchFile)
    /\ search' = SearchStep(searchFile, searchKey, search)
    /\ turns' = turns + 1
    /\ UNCHANGED <<searchFile, searchKey>>
    /\ UNCHANGED <<addonVars, idVars, httpVars, scrapeVars, imdbVars>>

SearchNext == SearchOpens \/ SearchTurns

\* the search can go on
CanSearch ==
    \/ search.pc = "closed"
    \/ search.pc = "loop" /\ turns <= Len(searchFile)

\* a read of the file returns in the end: the search goes on while it can
\* (weak fairness of SearchNext, with its guard written out)
SearchSpec ==
    /\ SearchInit
    /\ [][SearchNext]_vars
    /\ []<>~CanSearch \/ []<><<SearchNext>>_vars

(* ---------------------------------------------------------------- C32 *)
\* the data lines of a file: what follows the header row, line by line
RECURSIVE SplitLines(_, _)
SplitLines(file, line) ==
    IF file = <<>> THEN (IF line = <<>> THEN <<>> ELSE <<line>>)
    ELSE IF Head(file) = "\n" THEN <<line>> \o SplitLines(Tail(file), <<>>)
    ELSE SplitLines(Tail(file), Append(line, Head(file)))

DataLines(file) == Tail(SplitLines(file, <<>>))

\* the line of the file whose first column is the tconst, if there is one
LineOf(file, tconst) ==
    LET lines == DataLines(file)
        hits == {i \in 1..Len(lines) : FirstColumn(lines[i]) = tconst}
    IN IF hits = {} THEN None ELSE Some(lines[CHOOSE i \in hits : TRUE])

\* a turn of the loop that does not end the search leaves a smaller interval
TurnShrinks ==
    (search.pc = "loop" /\ search'.pc = "loop") =>
        /\ search'.low >= search.low
        /\ search'.high <= search.high
        /\ search'.high - search'.low < search.high - search.low

\* C32: on a TSV with a header row and non-empty data lines sorted by tconst,
\* findLineByTconst returns the line whose first column is the tconst when
\* there is one and null otherwise, never the header row, and every turn of
\* its loop strictly shrinks the interval [low, high], so that the search
\* ends.
C32_BinarySearch ==
    /\ [](search.pc = "done" =>
            /\ search.result = LineOf(searchFile, searchKey)
            /\ search.result # Some(HeaderRow))
    /\ [][TurnShrinks]_vars
    /\ <>(search.pc = "done")

\* a search has found a line that is neither the first nor the last of its
\* file, and one has ended without a line
C32_Witness ==
    /\ search.pc = "done"
    /\ IsSome(search.result)
    /\ Len(DataLines(searchFile)) = MaxLines
    /\ Val(search.result) = DataLines(searchFile)[2]
    /\ Len(Val(search.result)) > BUFFER_SIZE

(* -------------------------------------------- the IMDb module on its own *)
(* imdb/index.ts: ensureImdbDatasets, refreshDataset and getTitleBasics.  A  *)
(* step runs from one await to the next.                                    *)

\* descriptor.tsv of the one dataset
TsvName == "title.basics.tsv"

\* the file on disk at startup and the file a download brings
OldTsv == Tsv(<< <<"a", "\t", "x">> >>, TRUE)
NewTsv == Tsv(<< <<"a", "\t", "x", "x", "x">>, <<"b">> >>, TRUE)

\* the tconst values looked up: one of both files, one of the new file only
LookupKeys == { <<"a">>, <<"b">> }

\* findLineByTconst on an open file: the loop to its end
RECURSIVE SearchFrom(_, _, _)
SearchFrom(file, tconst, at) ==
    IF at.pc = "done" THEN at.result
    ELSE SearchFrom(file, tconst, SearchStep(file, tconst, at))

findLineByTconst(file, tconst) == SearchFrom(file, tconst, OpenSearch(file))

\* parseTitleBasics: the columns of the line, the first and the others
parseTitleBasics(line) ==
    [tconst |-> FirstColumn(line),
     columns |-> SubSeq(line, Len(FirstColumn(line)) + 2, Len(line))]

\* mutant: a refresh in flight is not looked for
ExistingRefresh_None(map) == None

\* refreshes.get(descriptor.tsv)
ExistingRefresh(map) ==
    IF TsvName \in DOMAIN map THEN Some(map[TsvName]) ELSE None

\* the tasks that have not ended
InFlight ==
    {k \in 1..Len(refreshTasks) : refreshTasks[k].pc \notin {"ended", "failed"}}

\* refreshDataset up to its await, for a call put at the end of callers:
\* join the task in flight, or start one and enter it in refreshes
RefreshDataset(awaited) ==
    LET existing == ExistingRefresh(refreshes)
    IN IF IsSome(existing)
       THEN /\ callers' = Append(callers, [pc |-> "awaiting",
                                            task |-> Val(existing),
                                            awaited |-> awaited])
            /\ UNCHANGED <<refreshTasks, refreshes>>
       ELSE /\ refreshTasks' = Append(refreshTasks, [pc |-> "download"])
            /\ refreshes' = Put(refreshes, TsvName, Len(refreshTasks) + 1)
            /\ callers' = Append(callers, [pc |-> "awaiting",
                                            task |-> Len(refreshTasks) + 1,
                                            awaited |-> awaited])

\* start().catch exits the process when ensureImdbDatasets throws
Alive ==
    \A c \in 1..Len(callers) : callers[c].awaited => callers[c].pc # "threw"

\* ensureImdbDatasets: without the file, refresh and wait; with a stale file,
\* refresh in the background (setImmediate); else return
EnsureImdbDatasets(stale) ==
    /\ Alive
    /\ ensures < MaxEnsures
    /\ ensures' = ensures + 1
    /\ IF ~IsSome(datasetFile)
       THEN RefreshDataset(TRUE)
       ELSE IF stale
       THEN /\ callers' = Append(callers, [pc |-> "scheduled", task |-> 0,
                                            awaited |-> FALSE])
            /\ UNCHANGED <<refreshTasks, refreshes>>
       ELSE UNCHANGED <<callers, refreshTasks, refreshes>>
    /\ UNCHANGED <<datasetFile, tmpFile, titleBasicsCache, lookups>>
    /\ UNCHANGED <<addonVars, idVars, httpVars, scrapeVars, searchVars>>

\* the setImmediate callback: refreshDataset(descriptor)
BackgroundRefresh(c) ==
    /\ Alive
    /\ c \in 1..Len(callers)
    /\ callers[c].pc = "scheduled"
    /\ LET existing == ExistingRefresh(refreshes)
       IN IF IsSome(existing)
          THEN /\ callers' = [callers EXCEPT ![c].pc = "awaiting",
                                             ![c].task = Val(existing)]
               /\ UNCHANGED <<refreshTasks, refreshes>>
          ELSE /\ refreshTasks' = Append(refreshTasks, [pc |-> "download"])
               /\ refreshes' = Put(refreshes, TsvName, Len(refreshTasks) + 1)
               /\ callers' = [callers EXCEPT ![c].pc = "awaiting",
                                             ![c].task = Len(refreshTasks) + 1]
    /\ UNCHANGED <<datasetFile, tmpFile, ensures, titleBasicsCache, lookups>>
    /\ UNCHANGED <<addonVars, idVars, httpVars, scrapeVars, searchVars>>

\* the task ends: finally refreshes.delete(descriptor.tsv), and every call
\* that awaits its promise goes on, returning or throwing
TaskEnds(k, outcome) ==
    /\ refreshTasks' = [refreshTasks EXCEPT ![k].pc = outcome]
    /\ refreshes' = Without(refreshes, TsvName)
    /\ callers' = [c \in 1..Len(callers) |->
                      IF callers[c].pc = "awaiting" /\ callers[c].task = k
                      THEN [callers[c] EXCEPT
                              !.pc = IF outcome = "ended" THEN "returned"
                                     ELSE "threw"]
                      ELSE callers[c]]

\* downloadAndExtract, await by await: the download (which may fail), the
\* extraction, the removal of the archive, the removal of the old file and
\* the rename of the new one (which fails without a file to rename)
TaskSteps(k, ok) ==
    /\ Alive
    /\ k \in InFlight
    /\ LET at == refreshTasks[k].pc
       IN CASE at = "download" ->
                 IF ok
                 THEN /\ refreshTasks' = [refreshTasks EXCEPT ![k].pc = "extract"]
                      /\ UNCHANGED <<datasetFile, tmpFile, refreshes, callers>>
                 ELSE /\ TaskEnds(k, "failed")
                      /\ UNCHANGED <<datasetFile, tmpFile>>
            [] at = "extract" ->
                 /\ ok
                 /\ tmpFile' = Some(NewTsv)
                 /\ refreshTasks' = [refreshTasks EXCEPT ![k].pc = "rmgz"]
                 /\ UNCHANGED <<datasetFile, refreshes, callers>>
            [] at = "rmgz" ->
                 /\ ok
                 /\ refreshTasks' = [refreshTasks EXCEPT ![k].pc = "rmfinal"]
                 /\ UNCHANGED <<datasetFile, tmpFile, refreshes, callers>>
            [] at = "rmfinal" ->
                 /\ ok
                 /\ datasetFile' = None
                 /\ refreshTasks' = [refreshTasks EXCEPT ![k].pc = "rename"]
                 /\ UNCHANGED <<tmpFile, refreshes, callers>>
            [] at = "rename" ->
                 /\ ok
                 /\ IF IsSome(tmpFile)
                    THEN /\ datasetFile' = tmpFile
                         /\ tmpFile' = None
                         /\ TaskEnds(k, "ended")
                    ELSE /\ TaskEnds(k, "failed")
                         /\ UNCHANGED <<datasetFile, tmpFile>>
    /\ UNCHANGED <<ensures, titleBasicsCache, lookups>>
    /\ UNCHANGED <<addonVars, idVars, httpVars, scrapeVars, searchVars>>

\* start() has gone past ensureImdbDatasets: the server answers requests
Serving ==
    /\ ensures > 0
    /\ \A c \in 1..Len(callers) : callers[c].awaited => callers[c].pc = "returned"

\* the lookups that have returned
Done == {i \in 1..Len(lookups) : lookups[i].pc = "done"}

\* getTitleBasics(tconst) up to its first await: the memoized result, or
\* open(filePath)
GetTitleBasics(tconst) ==
    /\ Serving
    /\ Len(lookups) < MaxLookups
    /\ LET call == [tconst |-> tconst, pc |-> "opening", handle |-> None,
                    opened |-> FALSE, failed |-> FALSE, after |-> Done,
                    result |-> None]
       IN IF tconst \in DOMAIN titleBasicsCache
          THEN lookups' = Append(lookups,
                   [call EXCEPT !.pc = "done",
                                !.result = titleBasicsCache[tconst]])
          ELSE lookups' = Append(lookups, call)
    /\ UNCHANGED <<datasetFile, tmpFile, refreshes, refreshTasks, callers,
                   ensures, titleBasicsCache>>
    /\ UNCHANGED <<addonVars, idVars, httpVars, scrapeVars, searchVars>>

\* open answers: with a handle on the file that is there, or with an error
\* (no such file, or another error of the filesystem), which getTitleBasics
\* catches: line = null, and null is memoized
LookupOpens(i, fails) ==
    /\ Alive
    /\ i \in 1..Len(lookups)
    /\ lookups[i].pc = "opening"
    /\ IF fails \/ ~IsSome(datasetFile)
       THEN /\ lookups' = [lookups EXCEPT ![i].pc = "done",
                                          ![i].opened = TRUE,
                                          ![i].failed = fails,
                                          ![i].result = None]
            /\ titleBasicsCache' = Put(titleBasicsCache, lookups[i].tconst, None)
       ELSE /\ lookups' = [lookups EXCEPT ![i].pc = "reading",
                                          ![i].opened = TRUE,
                                          ![i].handle = datasetFile]
            /\ UNCHANGED titleBasicsCache
    /\ UNCHANGED <<datasetFile, tmpFile, refreshes, refreshTasks, callers,
                   ensures>>
    /\ UNCHANGED <<addonVars, idVars, httpVars, scrapeVars, searchVars>>

\* the reads of findLineByTconst have answered, from the file the handle
\* was opened on: parse the line, memoize, return
LookupReturns(i) ==
    /\ Alive
    /\ i \in 1..Len(lookups)
    /\ lookups[i].pc = "reading"
    /\ LET line == findLineByTconst(Val(lookups[i].handle), lookups[i].tconst)
           parsed == IF IsSome(line) THEN Some(parseTitleBasics(Val(line)))
                     ELSE None
       IN /\ lookups' = [lookups EXCEPT ![i].pc = "done", ![i].result = parsed]
          /\ titleBasicsCache' = Put(titleBasicsCache, lookups[i].tconst, parsed)
    /\ UNCHANGED <<datasetFile, tmpFile, refreshes, refreshTasks, callers,
                   ensures>>
    /\ UNCHANGED <<addonVars, idVars, httpVars, scrapeVars, searchVars>>

\* at startup the dataset is there or not
ImdbInit ==
    /\ AddonInit
    /\ maxRequestWaitSeconds = Some(0)
    /\ IdIdle
    /\ HttpIdle
    /\ ScrapeIdle
    /\ SearchIdle
    /\ datasetFile \in {None, Some(OldTsv)}
    /\ tmpFile = None
    /\ refreshes = << >>
    /\ refreshTasks = <<>>
    /\ callers = <<>>
    /\ ensures = 0
    /\ titleBasicsCache = << >>
    /\ lookups = <<>>

ImdbNext ==
    \/ \E stale \in BOOLEAN : EnsureImdbDatasets(stale)
    \/ \E c \in 1..Len(callers) : BackgroundRefresh(c)
    \/ \E k \in 1..Len(refreshTasks), ok \in BOOLEAN : TaskSteps(k, ok)
    \/ \E tconst \in LookupKeys : GetTitleBasics(tconst)
    \/ \E i \in 1..Len(lookups), fails \in BOOLEAN : LookupOpens(i, fails)
    \/ \E i \in 1..Len(lookups) : LookupReturns(i)

ImdbSpec == ImdbInit /\ [][ImdbNext]_vars

(* ---------------------------------------------------------------- C38 *)
\* C38: at most one download-and-extract task of the dataset is in flight;
\* refreshes holds the task in flight and nothing once it has ended, by
\* success or by failure; a call of refreshDataset waits while its task is
\* in flight and has returned, or thrown, once the task has ended or failed.
C38_SingleFlight ==
    /\ Cardinality(InFlight) <= 1
    /\ DOMAIN refreshes = (IF InFlight = {} THEN {} ELSE {TsvName})
    /\ \A name \in DOMAIN refreshes : refreshes[name] \in InFlight
    /\ \A c \in 1..Len(callers) :
          callers[c].pc # "scheduled" =>
             LET at == refreshTasks[callers[c].task].pc
             IN /\ callers[c].pc = "awaiting" <=> callers[c].task \in InFlight
                /\ callers[c].pc = "returned" <=> at = "ended"
                /\ callers[c].pc = "threw" <=> at = "failed"

\* two calls have shared one task, and a later refresh has started after a
\* task that failed
C38_Witness ==
    /\ \E c, d \in 1..Len(callers) :
          /\ c # d
          /\ callers[c].pc = "returned"
          /\ callers[d].pc = "returned"
          /\ callers[c].task = callers[d].task
    /\ refreshes = << >>

\* a refresh has started after one that failed
C38_Later ==
    \E k \in 1..Len(refreshTasks) :
        /\ refreshTasks[k].pc = "failed"
        /\ k < Len(refreshTasks)

(* ---------------------------------------------------------------- C33 *)
\* C33: a call of getTitleBasics made after a call for the same tconst has
\* returned gives the result of that call, and does not open the file.
C33_Memoized ==
    \A j \in Done :
        \A i \in lookups[j].after :
            lookups[i].tconst = lookups[j].tconst =>
                /\ lookups[j].result = lookups[i].result
                /\ ~lookups[j].opened

(* ---------------------------------------------------------------- C37 *)
\* the tconst values that the old and the new file both hold
InBothFiles ==
    {tconst \in LookupKeys :
        IsSome(LineOf(OldTsv, tconst)) /\ IsSome(LineOf(NewTsv, tconst))}

\* C37: with the dataset on disk at startup and no error of the filesystem
\* but the absence of the file, a lookup of a tconst that the old and the
\* new file both hold returns its record, whatever a refresh is doing, and
\* the tconst is never memoized as unknown.
C37_RefreshUnseen ==
    (\A i \in 1..Len(lookups) : ~lookups[i].failed) =>
        /\ \A i \in Done :
              lookups[i].tconst \in InBothFiles => IsSome(lookups[i].result)
        /\ \A tconst \in InBothFiles \cap DOMAIN titleBasicsCache :
              IsSome(titleBasicsCache[tconst])

(* -------------------------------------------- the EZTV pages on their own *)
(* scrapers/eztv.ts, fetchAllTorrents: the torrents are counted, not held.  *)

DEFAULT_LIMIT == 30
MAX_PAGES == 50
concurrency == 5

\* what the API answers for the first page: nothing (the fetch failed), or a
\* number of torrents with or without torrents_count and limit
FirstResponses ==
    {None} \cup
    {Some([torrents |-> n, torrents_count |-> total, limit |-> limit]) :
        n \in {0, 1, 2, DEFAULT_LIMIT},
        total \in {None, Some(0), Some(5), Some(12), Some(2000)},
        limit \in {None, Some(0), Some(2)}}

\* what it answers for a later page: nothing, or a page that is one short
\* of full, or full
PageResponses(pageLimit) == {None, Some(pageLimit - 1), Some(pageLimit)}

\* (response?.torrents ?? []).length
BatchLength(answer) == IF IsSome(answer) THEN Val(answer) ELSE 0

\* Math.ceil(a / b), b > 0
MathCeilDiv(a, b) == (a + b - 1) \div b

\* pageNumbers.slice(i, i + concurrency), pageNumbers being 2..lastPage
BatchPages(lastPage, i) ==
    [k \in 1..MathMin(concurrency, MathMax(0, lastPage - 1) - i) |-> i + k + 1]

\* the torrents pushed from the responses of a batch: page after page up to
\* the first that is not full
RECURSIVE Pushed(_, _)
Pushed(responses, pageLimit) ==
    IF responses = <<>> THEN 0
    ELSE LET batch == BatchLength(Head(responses))
         IN batch + (IF batch < pageLimit THEN 0
                     ELSE Pushed(Tail(responses), pageLimit))

\* the head of the for loop over the batches: request the pages of the
\* batch at i, or return
LoopHead(at) ==
    IF at.i < MathMax(0, at.lastPage - 1)
    THEN [at EXCEPT !.pc = "batch",
                    !.batchPages = BatchPages(at.lastPage, at.i),
                    !.requested = @ + Len(BatchPages(at.lastPage, at.i))]
    ELSE [at EXCEPT !.pc = "done", !.batchPages = <<>>]

\* the body of the for loop once Promise.all has resolved
AfterBatch(at, responses) ==
    LET torrents == at.torrents + Pushed(responses, at.pageLimit)
        short == \E k \in 1..Len(responses) :
                     BatchLength(responses[k]) < at.pageLimit
        pushed == [at EXCEPT !.torrents = torrents,
                             !.short = at.short \/ short]
    IN IF IsSome(at.expectedTotal) /\ torrents >= Val(at.expectedTotal)
       THEN [pushed EXCEPT !.pc = "done", !.batchPages = <<>>]
       ELSE LoopHead([pushed EXCEPT !.i = @ + concurrency])

\* fetchAllTorrents once the first page has answered
AfterFirst(at, firstResponse) ==
    IF ~IsSome(firstResponse)
    THEN [at EXCEPT !.pc = "done", !.batchPages = <<>>, !.short = TRUE]
    ELSE LET first == Val(firstResponse)
             expectedTotal == first.torrents_count
             pageLimit == IF IsSome(first.limit) /\ Val(first.limit) > 0
                          THEN Val(first.limit) ELSE DEFAULT_LIMIT
             totalPages == IF IsSome(expectedTotal) /\ Val(expectedTotal) # 0
                           THEN MathCeilDiv(Val(expectedTotal), pageLimit)
                           ELSE MAX_PAGES
             got == [at EXCEPT !.torrents = first.torrents,
                               !.pageLimit = pageLimit,
                               !.expectedTotal = expectedTotal,
                               !.batchPages = <<>>,
                               !.short = first.torrents < pageLimit]
         IN IF \/ first.torrents = 0
               \/ IsSome(expectedTotal) /\ first.torrents >= Val(expectedTotal)
               \/ first.torrents < pageLimit
            THEN [got EXCEPT !.pc = "done"]
            ELSE LoopHead([got EXCEPT
                             !.lastPage = MathMin(totalPages, MAX_PAGES),
                             !.i = 0])

\* fetchAllTorrents(baseUrl, imdbId) is called: the first page is requested
FetchAllTorrents ==
    /\ paging.pc = "start"
    /\ paging' = [paging EXCEPT !.pc = "first", !.batchPages = <<1>>,
                                !.requested = 1]
    /\ UNCHANGED <<scrapeCall, contextAborted, scrape, addonVars, idVars,
                   httpVars, searchVars, imdbVars>>

\* fetchJson answers for the first page
FirstPageAnswers(firstResponse) ==
    /\ paging.pc = "first"
    /\ paging' = AfterFirst(paging, firstResponse)
    /\ UNCHANGED <<scrapeCall, contextAborted, scrape, addonVars, idVars,
                   httpVars, searchVars, imdbVars>>

\* Promise.all over the pages of a batch resolves
BatchAnswers(responses) ==
    /\ paging.pc = "batch"
    /\ Len(responses) = Len(paging.batchPages)
    /\ paging' = AfterBatch(paging, responses)
    /\ UNCHANGED <<scrapeCall, contextAborted, scrape, addonVars, idVars,
                   httpVars, searchVars, imdbVars>>

EztvInit ==
    /\ AddonInit
    /\ maxRequestWaitSeconds = Some(0)
    /\ IdIdle
    /\ HttpIdle
    /\ SearchIdle
    /\ ImdbIdle
    /\ scrapeCall = NoCall
    /\ contextAborted = FALSE
    /\ scrape = IdleScrape
    /\ paging = [NoPaging EXCEPT !.pc = "start"]

EztvNext ==
    \/ FetchAllTorrents
    \/ \E firstResponse \in FirstResponses : FirstPageAnswers(firstResponse)
    \/ \E responses \in UNION {[1..n -> PageResponses(paging.pageLimit)] :
                                 n \in 1..concurrency} :
          BatchAnswers(responses)

EztvSpec == EztvInit /\ [][EztvNext]_vars

(* ---------------------------------------------------------------- C39 *)
\* the pages requested and the pages in flight stay within their caps
PagesCapped ==
    /\ paging.requested <= MAX_PAGES
    /\ Len(paging.batchPages) <= concurrency

\* once a page has answered with fewer torrents than the page limit, or has
\* failed, no page is requested
StopsAfterShort == paging.short => paging'.requested = paging.requested

\* C39: fetchAllTorrents requests at most 50 pages, at most 5 at a time, and
\* requests no further batch once a page has answered short of the page
\* limit or has failed.
C39_PagingBounded == []PagesCapped /\ [][StopsAfterShort]_vars

====
